---- MODULE Spec2Model ----
(***************************************************************************)
(* Model of chad.core.config.provider.YAMLConfigProvider: the layered      *)
(* configuration provider (base document, secrets document, environment    *)
(* variables, overrides map) and its dotted-key accessors.                 *)
(*                                                                         *)
(* Strings are sequences of one-character strings, so that split('.'),     *)
(* the f-string join of _flatten_dict and str.startswith are computed.     *)
(* A Python value is a record [t |-> tag, v |-> payload].  A dict keeps    *)
(* its insertion order: its payload is a sequence of <<key, value>> pairs  *)
(* with pairwise distinct keys.                                            *)
(***************************************************************************)
EXTENDS Integers, Sequences, FiniteSets, TLC

VARIABLES
    config,      \* self._config
    loaded,      \* self._loaded
    secretsSet,  \* self._secrets_path is not None
    call,        \* the last call made on the provider: its arguments and outcome
    succeeded,   \* history: some initialize call has returned normally
    nops,        \* number of calls made so far
    limit,       \* number of calls a behaviour may make
    pin,         \* inputs of the accessor harness (SpecPure)
    pout,        \* results of the accessor harness (SpecPure)
    caller,      \* the overrides map object of the caller of initialize
    objects,     \* the QualityMetric objects created, each with its _values
    _metrics,    \* MetricsRegistry._metrics: name -> QualityMetric object
    monitor,     \* a PerformanceMonitor has been constructed on the registry
    returned,    \* the list a get_values call returned to its caller
    recorded,    \* history: the samples recorded on each object, in order
    rules,       \* Validator.rules: name -> ValidationRule
    _validation_errors,  \* Validator._validation_errors
    added        \* history: the rules passed to add_rule, in order

metricVars == <<objects, _metrics, monitor, returned, recorded>>
validatorVars == <<rules, _validation_errors, added>>

vars == <<config, loaded, secretsSet, call, succeeded, nops, limit, pin, pout, caller,
          metricVars, validatorVars>>

----------------------------------------------------------------------------
(* Python values *)

Null     == [t |-> "null", v |-> 0]
PyBool(b) == [t |-> "bool", v |-> b]
PyInt(n) == [t |-> "int", v |-> n]
\* a float m / 10^e, with m not a multiple of 10 unless e = 0
PyFloat(m, e) == [t |-> "float", v |-> <<m, e>>]
PyStr(s) == [t |-> "str", v |-> s]
PySeq(s) == [t |-> "seq", v |-> s]
PyDict(items) == [t |-> "map", v |-> items]
EmptyDict == PyDict(<<>>)

\* isinstance(x, dict)
IsDict(x) == x.t = "map"

\* bool(x): None, False, 0, 0.0, '', [] and {} are falsy
Truthy(x) ==
    CASE x.t = "null" -> FALSE
      [] x.t = "bool" -> x.v
      [] x.t = "int" -> x.v # 0
      [] x.t = "float" -> x.v[1] # 0
      [] OTHER -> x.v # <<>>

\* the keys of a dict, as a set
KeySet(d) == {d.v[i][1] : i \in 1..Len(d.v)}

\* k in d
HasKey(d, k) == k \in KeySet(d)

\* d[k], for a key that d has
At(d, k) == d.v[CHOOSE i \in 1..Len(d.v) : d.v[i][1] = k][2]

\* d[k] = x: an existing key keeps its position, a new key goes last
Put(d, k, x) ==
    IF HasKey(d, k)
    THEN PyDict([i \in 1..Len(d.v) |-> IF d.v[i][1] = k THEN <<k, x>> ELSE d.v[i]])
    ELSE PyDict(Append(d.v, <<k, x>>))

\* dict(items): the pairs assigned one after the other
RECURSIVE DictOf(_, _)
DictOf(items, acc) ==
    IF items = <<>> THEN acc
    ELSE DictOf(Tail(items), Put(acc, Head(items)[1], Head(items)[2]))

\* x == y in Python for the values of a tree: dicts compare without order
RECURSIVE PyEq(_, _)
PyEq(x, y) ==
    IF IsDict(x) /\ IsDict(y)
    THEN /\ KeySet(x) = KeySet(y)
         /\ \A k \in KeySet(x) : PyEq(At(x, k), At(y, k))
    ELSE x = y

----------------------------------------------------------------------------
(* Strings *)

Dot == "."

\* the position of the first '.' of s, 0 when it has none
FirstDot(s) ==
    IF \E i \in 1..Len(s) : s[i] = Dot
    THEN CHOOSE i \in 1..Len(s) : s[i] = Dot /\ \A j \in 1..(i - 1) : s[j] # Dot
    ELSE 0

\* s.split('.')
RECURSIVE Split(_)
Split(s) ==
    IF FirstDot(s) = 0 THEN <<s>>
    ELSE <<SubSeq(s, 1, FirstDot(s) - 1)>> \o Split(SubSeq(s, FirstDot(s) + 1, Len(s)))

\* s.startswith(p)
StartsWith(s, p) == Len(p) <= Len(s) /\ SubSeq(s, 1, Len(p)) = p

----------------------------------------------------------------------------
(* Path accessor *)

KeyError == [ok |-> FALSE, val |-> Null]
Found(x) == [ok |-> TRUE, val |-> x]

\* the loop of _get_nested over the remaining segments
RECURSIVE GetWalk(_, _)
GetWalk(current, keys) ==
    IF keys = <<>> THEN Found(current)
    ELSE IF ~IsDict(current) THEN KeyError
    ELSE IF ~HasKey(current, Head(keys)) THEN KeyError
    ELSE GetWalk(At(current, Head(keys)), Tail(keys))

\* faulty variant: a walk that stops at a value that is no dict and returns it
RECURSIVE GetWalkLenient(_, _)
GetWalkLenient(current, keys) ==
    IF keys = <<>> THEN Found(current)
    ELSE IF ~IsDict(current) THEN Found(current)
    ELSE IF ~HasKey(current, Head(keys)) THEN KeyError
    ELSE GetWalkLenient(At(current, Head(keys)), Tail(keys))

_get_nested_lenient(d, key) == GetWalkLenient(d, Split(key))

\* _get_nested(d, key)
_get_nested(d, key) == GetWalk(d, Split(key))

\* the loop of _set_nested below a dict, and its final assignment
RECURSIVE SetWalk(_, _, _)
SetWalk(current, keys, value) ==
    IF Len(keys) = 1 THEN Put(current, keys[1], value)
    ELSE LET k == Head(keys)
             child == IF ~HasKey(current, k) THEN EmptyDict
                      ELSE IF ~IsDict(At(current, k)) THEN EmptyDict
                      ELSE At(current, k)
         IN  Put(current, k, SetWalk(child, Tail(keys), value))

\* faulty variant: every non-terminal segment gets a new empty dict, also
\* where a dict is held
RECURSIVE SetWalkFresh(_, _, _)
SetWalkFresh(current, keys, value) ==
    IF Len(keys) = 1 THEN Put(current, keys[1], value)
    ELSE Put(current, Head(keys), SetWalkFresh(EmptyDict, Tail(keys), value))

_set_nested_fresh(d, key, value) ==
    IF IsDict(d) THEN [ok |-> TRUE, val |-> SetWalkFresh(d, Split(key), value)]
    ELSE [ok |-> FALSE, val |-> d]

\* _set_nested(d, key, value): the tree afterwards; on a root that is not a
\* dict the first subscript store raises TypeError and nothing is changed
_set_nested(d, key, value) ==
    IF IsDict(d) THEN [ok |-> TRUE, val |-> SetWalk(d, Split(key), value)]
    ELSE [ok |-> FALSE, val |-> d]

\* _merge_dict(base, override) for two dicts: base afterwards
RECURSIVE MergeItems(_, _)
MergeItems(base, items) ==
    IF items = <<>> THEN base
    ELSE LET key == Head(items)[1]
             value == Head(items)[2]
         IN  IF HasKey(base, key) /\ IsDict(At(base, key)) /\ IsDict(value)
             THEN MergeItems(Put(base, key, MergeItems(At(base, key), value.v)), Tail(items))
             ELSE MergeItems(Put(base, key, value), Tail(items))

\* faulty variant: a shallow update, base[key] = value for every key of override
_merge_dict_shallow(base, override) == DictOf(override.v, base)

\* faulty variant: a left-biased merge that never overwrites a value base holds
RECURSIVE MergeKeepItems(_, _)
MergeKeepItems(base, items) ==
    IF items = <<>> THEN base
    ELSE LET key == Head(items)[1]
             value == Head(items)[2]
         IN  IF HasKey(base, key) /\ IsDict(At(base, key)) /\ IsDict(value)
             THEN MergeKeepItems(Put(base, key, MergeKeepItems(At(base, key), value.v)),
                                 Tail(items))
             ELSE IF HasKey(base, key) THEN MergeKeepItems(base, Tail(items))
             ELSE MergeKeepItems(Put(base, key, value), Tail(items))

_merge_dict_keep_base(base, override) == MergeKeepItems(base, override.v)

_merge_dict(base, override) == MergeItems(base, override.v)

\* new_key of _flatten_dict
NewKey(parent_key, k) == IF parent_key # <<>> THEN parent_key \o <<Dot>> \o k ELSE k

\* _flatten_dict(d, parent_key)
RECURSIVE FlattenItems(_, _)
FlattenItems(items, parent_key) ==
    IF items = <<>> THEN <<>>
    ELSE LET k == Head(items)[1]
             v == Head(items)[2]
             here == IF IsDict(v)
                     THEN DictOf(FlattenItems(v.v, NewKey(parent_key, k)), EmptyDict).v
                     ELSE << <<NewKey(parent_key, k), v>> >>
         IN  here \o FlattenItems(Tail(items), parent_key)

_flatten_dict(d) == DictOf(FlattenItems(d.v, <<>>), EmptyDict)

----------------------------------------------------------------------------
(* Environment overlay *)

UpperCase == <<"A", "B", "C", "D", "E", "F", "G", "H", "I", "J", "K", "L", "M",
               "N", "O", "P", "Q", "R", "S", "T", "U", "V", "W", "X", "Y", "Z">>
LowerCase == <<"a", "b", "c", "d", "e", "f", "g", "h", "i", "j", "k", "l", "m",
               "n", "o", "p", "q", "r", "s", "t", "u", "v", "w", "x", "y", "z">>
Digits == <<"0", "1", "2", "3", "4", "5", "6", "7", "8", "9">>

\* c.lower() for the upper-case letters
LowerOf == [c \in {UpperCase[j] : j \in 1..Len(UpperCase)} |->
               LowerCase[CHOOSE j \in 1..Len(UpperCase) : UpperCase[j] = c]]

\* s.lower(), for ASCII text
Lower(s) == [i \in 1..Len(s) |-> IF s[i] \in DOMAIN LowerOf THEN LowerOf[s[i]] ELSE s[i]]

\* s.replace('__', '.'): the occurrences are taken from the left, without overlap
RECURSIVE ReplaceDunder(_)
ReplaceDunder(s) ==
    IF Len(s) < 2 THEN s
    ELSE IF s[1] = "_" /\ s[2] = "_" THEN <<Dot>> \o ReplaceDunder(SubSeq(s, 3, Len(s)))
    ELSE <<s[1]>> \o ReplaceDunder(Tail(s))

\* faulty variant: every '_' of the name becomes a '.'
ConfigKeyEveryUnderscore(name, prefix) ==
    [i \in 1..(Len(name) - Len(prefix)) |->
        IF Lower(name)[Len(prefix) + i] = "_" THEN Dot ELSE Lower(name)[Len(prefix) + i]]

\* config_key = key[len(self._env_prefix):].lower().replace('__', '.')
ConfigKey(name, prefix) == ReplaceDunder(Lower(SubSeq(name, Len(prefix) + 1, Len(name))))

DigitOf == [c \in {Digits[j] : j \in 1..Len(Digits)} |->
               (CHOOSE j \in 1..Len(Digits) : Digits[j] = c) - 1]
IsDigit(c) == c \in DOMAIN DigitOf
DigitVal(c) == DigitOf[c]
AllDigits(s) == s # <<>> /\ \A i \in 1..Len(s) : IsDigit(s[i])

RECURSIVE DigitsVal(_)
DigitsVal(s) == IF s = <<>> THEN 0 ELSE 10 * DigitsVal(SubSeq(s, 1, Len(s) - 1)) + DigitVal(s[Len(s)])

\* a digit run with a leading zero is octal to the parser when it can be
AllOctal(s) == \A i \in 1..Len(s) : DigitVal(s[i]) < 8
RECURSIVE OctalVal(_)
OctalVal(s) == IF s = <<>> THEN 0 ELSE 8 * OctalVal(SubSeq(s, 1, Len(s) - 1)) + DigitVal(s[Len(s)])

RECURSIVE Pow10(_)
Pow10(n) == IF n = 0 THEN 1 ELSE 10 * Pow10(n - 1)

\* the float m / 10^e without its trailing zeros
RECURSIVE NormFloat(_, _)
NormFloat(m, e) == IF e > 0 /\ m % 10 = 0 THEN NormFloat(m \div 10, e - 1) ELSE PyFloat(m, e)

\* int(s) for text made of ASCII letters, digits, '.', quotes and brackets:
\* a run of digits is its value, anything else raises ValueError
ParseInt(s) == IF AllDigits(s) THEN [ok |-> TRUE, val |-> PyInt(DigitsVal(s))]
               ELSE [ok |-> FALSE, val |-> Null]

\* float(s) for the same text: digits, optionally with one '.' that has a
\* digit on at least one side; anything else raises ValueError
ParseFloat(s) ==
    LET d == FirstDot(s)
        ip == SubSeq(s, 1, d - 1)
        fp == SubSeq(s, d + 1, Len(s))
    IN  IF d = 0 THEN (IF AllDigits(s) THEN [ok |-> TRUE, val |-> PyFloat(DigitsVal(s), 0)]
                       ELSE [ok |-> FALSE, val |-> Null])
        ELSE IF /\ (ip = <<>> \/ AllDigits(ip))
                /\ (fp = <<>> \/ AllDigits(fp))
                /\ (ip # <<>> \/ fp # <<>>)
             THEN [ok |-> TRUE,
                   val |-> NormFloat(DigitsVal(ip) * Pow10(Len(fp)) + DigitsVal(fp), Len(fp))]
             ELSE [ok |-> FALSE, val |-> Null]

\* yaml.safe_load(value) of one environment value.  The parser is PyYAML's;
\* its answers for the raw values of the model are tabulated here:
\* kind "value" with the constructed value, kind "YAMLError" when the parser
\* rejects the text, kind "raise" when a constructor raises another exception
\* (the date constructor raises ValueError for an impossible date).
YamlValue(x) == [kind |-> "value", val |-> x]
YamlLoad(raw) ==
    CASE raw = <<>> -> YamlValue(Null)
      [] raw = <<"~">> -> YamlValue(Null)
      [] raw = <<"n", "u", "l", "l">> -> YamlValue(Null)
      [] raw = <<"t", "r", "u", "e">> -> YamlValue(PyBool(TRUE))
      [] raw = <<"f", "a", "l", "s", "e">> -> YamlValue(PyBool(FALSE))
      [] raw = <<"[", "1", ",", "2", ",", "3", "]">> ->
            YamlValue(PySeq(<<PyInt(1), PyInt(2), PyInt(3)>>))
      [] raw = <<"{", "b", ":", " ", "1", "}">> ->
            YamlValue(PyDict(<< <<(<<"b">>), PyInt(1)>> >>))
      [] raw = <<"[", "1">> -> [kind |-> "YAMLError", val |-> Null]
      [] raw = <<"2", "0", "0", "1", "-", "0", "2", "-", "3", "0">> ->
            [kind |-> "raise", val |-> Null]
      [] AllDigits(raw) /\ (Len(raw) = 1 \/ raw[1] # "0") -> YamlValue(PyInt(DigitsVal(raw)))
      [] AllDigits(raw) /\ AllOctal(raw) -> YamlValue(PyInt(OctalVal(raw)))
      [] FirstDot(raw) # 0 /\ ParseFloat(raw).ok -> YamlValue(ParseFloat(raw).val)
      [] Len(raw) >= 2 /\ raw[1] = "'" /\ raw[Len(raw)] = "'" ->
            YamlValue(PyStr(SubSeq(raw, 2, Len(raw) - 1)))
      [] OTHER -> YamlValue(PyStr(raw))

\* faulty variant: a parsed string is stored as it is
CoerceNothing(parsed_value) == parsed_value

\* the numeric coercion of a parsed string (provider.py lines 137-144)
Coerce(parsed_value) ==
    IF parsed_value.t # "str" THEN parsed_value
    ELSE IF FirstDot(parsed_value.v) # 0
         THEN (IF ParseFloat(parsed_value.v).ok THEN ParseFloat(parsed_value.v).val
               ELSE parsed_value)
         ELSE (IF ParseInt(parsed_value.v).ok THEN ParseInt(parsed_value.v).val
               ELSE parsed_value)

\* the value _apply_env_overrides stores for a raw value the parser answered
\* with parsed
StoredValue(parsed, raw) ==
    IF parsed.kind = "YAMLError" THEN PyStr(raw) ELSE Coerce(parsed.val)

EnvValue(raw) == StoredValue(YamlLoad(raw), raw)

\* _apply_env_overrides over the items of os.environ, in their order; ok is
\* FALSE when an exception leaves the loop (a constructor exception of the
\* parser, or the TypeError of _set_nested on a root that is not a dict), and
\* val is the tree as it is then
RECURSIVE ApplyEnvItems(_, _, _)
ApplyEnvItems(cfg, items, prefix) ==
    IF items = <<>> THEN [ok |-> TRUE, val |-> cfg]
    ELSE LET key == Head(items)[1]
             value == Head(items)[2]
             parsed == YamlLoad(value)
             stored == _set_nested(cfg, ConfigKey(key, prefix), StoredValue(parsed, value))
         IN  IF ~StartsWith(key, prefix) THEN ApplyEnvItems(cfg, Tail(items), prefix)
             ELSE IF parsed.kind = "raise" THEN [ok |-> FALSE, val |-> cfg]
             ELSE IF ~stored.ok THEN [ok |-> FALSE, val |-> cfg]
             ELSE ApplyEnvItems(stored.val, Tail(items), prefix)

\* faulty variant: a variable whose value is None is not written
RECURSIVE ApplyEnvItemsSkipNone(_, _, _)
ApplyEnvItemsSkipNone(cfg, items, prefix) ==
    IF items = <<>> THEN [ok |-> TRUE, val |-> cfg]
    ELSE LET key == Head(items)[1]
             value == Head(items)[2]
             parsed == YamlLoad(value)
             stored == _set_nested(cfg, ConfigKey(key, prefix), StoredValue(parsed, value))
         IN  IF ~StartsWith(key, prefix) THEN ApplyEnvItemsSkipNone(cfg, Tail(items), prefix)
             ELSE IF parsed.kind = "raise" THEN [ok |-> FALSE, val |-> cfg]
             ELSE IF StoredValue(parsed, value) = Null
                  THEN ApplyEnvItemsSkipNone(cfg, Tail(items), prefix)
             ELSE IF ~stored.ok THEN [ok |-> FALSE, val |-> cfg]
             ELSE ApplyEnvItemsSkipNone(stored.val, Tail(items), prefix)

_apply_env_overrides_skip_none(cfg, environ, prefix) ==
    ApplyEnvItemsSkipNone(cfg, environ, prefix)

_apply_env_overrides(cfg, environ, prefix) == ApplyEnvItems(cfg, environ, prefix)

----------------------------------------------------------------------------
(* Provider operations, as functions of the provider's fields and the
   arguments.  A document is what open() and yaml.safe_load give for a path:
   [exists, err, val], exists the path's existence, err an unreadable file
   or a malformed document, val the parsed value (Null for an empty or
   whitespace-only document). *)

NoExc == "none"

\* _load_yaml(path): the parsed value or {}, or ConfigurationError
_load_yaml(doc) ==
    IF ~doc.exists \/ doc.err THEN [exc |-> "ConfigurationError", ret |-> Null]
    ELSE [exc |-> NoExc, ret |-> IF Truthy(doc.val) THEN doc.val ELSE EmptyDict]

\* load(source)
load(doc) ==
    IF _load_yaml(doc).exc # NoExc THEN [exc |-> "ConfigurationError", ret |-> Null]
    ELSE _load_yaml(doc)

\* self._merge_dict(base, override) as initialize calls it, where either
\* argument may fail to be a dict: override.items() raises AttributeError
\* when override is no dict, and for a non-empty override the subscripts of
\* a base that is no dict raise TypeError
MergeCall(base, override) ==
    IF ~IsDict(override) THEN [ok |-> FALSE, val |-> base]
    ELSE IF override.v = <<>> THEN [ok |-> TRUE, val |-> base]
    ELSE IF ~IsDict(base) THEN [ok |-> FALSE, val |-> base]
    ELSE [ok |-> TRUE, val |-> _merge_dict(base, override)]

EnvPrefix == <<"C", "H", "A", "D", "_">>

\* faulty variant: a failed initialize clears the loaded flag
FailedResets(cfg, ld, n) ==
    [config |-> cfg, loaded |-> FALSE, exc |-> "ConfigurationError", stage |-> n]

\* faulty variant: the loaded flag is set before the overrides map is merged
FailedAfterFlag(cfg, ld, n) ==
    [config |-> cfg, loaded |-> (ld \/ n = 3), exc |-> "ConfigurationError", stage |-> n]

Failed(cfg, ld, n) == [config |-> cfg, loaded |-> ld, exc |-> "ConfigurationError", stage |-> n]

\* faulty variant: a configured secrets source is loaded whether or not its
\* target exists
initialize_secrets_required(cfg, ld, sset, base, secrets, environ, overrides) ==
    LET s1 == load(base)
        c1 == s1.ret
        s2 == load(secrets)
        m2 == MergeCall(c1, s2.ret)
        c2 == IF sset THEN m2.val ELSE c1
        e3 == _apply_env_overrides(c2, environ, EnvPrefix)
        c3 == e3.val
        m4 == MergeCall(c3, overrides)
        c4 == IF Truthy(overrides) THEN m4.val ELSE c3
    IN  IF s1.exc # NoExc THEN Failed(cfg, ld, 0)
        ELSE IF sset /\ s2.exc # NoExc THEN Failed(c1, ld, 1)
        ELSE IF sset /\ ~m2.ok THEN Failed(c1, ld, 1)
        ELSE IF ~e3.ok THEN Failed(c3, ld, 2)
        ELSE IF Truthy(overrides) /\ ~m4.ok THEN Failed(c3, ld, 3)
        ELSE [config |-> c4, loaded |-> TRUE, exc |-> NoExc, stage |-> 4]

\* faulty variant: a failure of the secrets stage restores the tree held before
initialize_rollback(cfg, ld, sset, base, secrets, environ, overrides) ==
    LET s1 == load(base)
        c1 == s1.ret
        s2 == load(secrets)
        m2 == MergeCall(c1, s2.ret)
        c2 == IF sset /\ secrets.exists THEN m2.val ELSE c1
        e3 == _apply_env_overrides(c2, environ, EnvPrefix)
        c3 == e3.val
        m4 == MergeCall(c3, overrides)
        c4 == IF Truthy(overrides) THEN m4.val ELSE c3
    IN  IF s1.exc # NoExc THEN Failed(cfg, ld, 0)
        ELSE IF sset /\ secrets.exists /\ s2.exc # NoExc THEN Failed(cfg, ld, 1)
        ELSE IF sset /\ secrets.exists /\ ~m2.ok THEN Failed(cfg, ld, 1)
        ELSE IF ~e3.ok THEN Failed(c3, ld, 2)
        ELSE IF Truthy(overrides) /\ ~m4.ok THEN Failed(c3, ld, 3)
        ELSE [config |-> c4, loaded |-> TRUE, exc |-> NoExc, stage |-> 4]

\* faulty variant: the environment overlay runs after the overrides map is merged
initialize_env_last(cfg, ld, sset, base, secrets, environ, overrides) ==
    LET s1 == load(base)
        c1 == s1.ret
        s2 == load(secrets)
        m2 == MergeCall(c1, s2.ret)
        c2 == IF sset /\ secrets.exists THEN m2.val ELSE c1
        m3 == MergeCall(c2, overrides)
        c3 == IF Truthy(overrides) THEN m3.val ELSE c2
        e4 == _apply_env_overrides(c3, environ, EnvPrefix)
    IN  IF s1.exc # NoExc THEN Failed(cfg, ld, 0)
        ELSE IF sset /\ secrets.exists /\ s2.exc # NoExc THEN Failed(c1, ld, 1)
        ELSE IF sset /\ secrets.exists /\ ~m2.ok THEN Failed(c1, ld, 1)
        ELSE IF Truthy(overrides) /\ ~m3.ok THEN Failed(c2, ld, 2)
        ELSE IF ~e4.ok THEN Failed(e4.val, ld, 3)
        ELSE [config |-> e4.val, loaded |-> TRUE, exc |-> NoExc, stage |-> 4]

\* initialize(config): the fields afterwards, the exception raised and the
\* number of stages completed (base, secrets, environment, overrides)
initialize(cfg, ld, sset, base, secrets, environ, overrides) ==
    LET s1 == load(base)
        c1 == s1.ret
        s2 == load(secrets)
        m2 == MergeCall(c1, s2.ret)
        c2 == IF sset /\ secrets.exists THEN m2.val ELSE c1
        e3 == _apply_env_overrides(c2, environ, EnvPrefix)
        c3 == e3.val
        m4 == MergeCall(c3, overrides)
        c4 == IF Truthy(overrides) THEN m4.val ELSE c3
    IN  IF s1.exc # NoExc THEN Failed(cfg, ld, 0)
        ELSE IF sset /\ secrets.exists /\ s2.exc # NoExc THEN Failed(c1, ld, 1)
        ELSE IF sset /\ secrets.exists /\ ~m2.ok THEN Failed(c1, ld, 1)
        ELSE IF ~e3.ok THEN Failed(c3, ld, 2)
        ELSE IF Truthy(overrides) /\ ~m4.ok THEN Failed(c3, ld, 3)
        ELSE [config |-> c4, loaded |-> TRUE, exc |-> NoExc, stage |-> 4]

\* faulty variant: a stored None is returned instead of the default
get_keeps_null(cfg, ld, key, default) ==
    IF ~ld THEN [exc |-> "ConfigurationError", ret |-> Null]
    ELSE IF ~_get_nested(cfg, key).ok THEN [exc |-> NoExc, ret |-> default]
    ELSE [exc |-> NoExc, ret |-> _get_nested(cfg, key).val]

\* get(key, default)
get(cfg, ld, key, default) ==
    IF ~ld THEN [exc |-> "ConfigurationError", ret |-> Null]
    ELSE IF ~_get_nested(cfg, key).ok THEN [exc |-> NoExc, ret |-> default]
    ELSE IF _get_nested(cfg, key).val # Null THEN [exc |-> NoExc, ret |-> _get_nested(cfg, key).val]
    ELSE [exc |-> NoExc, ret |-> default]

\* faulty variant: set without the check of the loaded flag
set_unchecked(cfg, ld, key, value) ==
    IF ~_set_nested(cfg, key, value).ok THEN [exc |-> "InvalidConfigError", config |-> cfg]
    ELSE [exc |-> NoExc, config |-> _set_nested(cfg, key, value).val]

\* faulty variant: set leaves a tree that holds the written path alone
set_alone(cfg, ld, key, value) ==
    IF ~ld THEN [exc |-> "ConfigurationError", config |-> cfg]
    ELSE IF ~_set_nested(cfg, key, value).ok THEN [exc |-> "InvalidConfigError", config |-> cfg]
    ELSE [exc |-> NoExc, config |-> _set_nested(EmptyDict, key, value).val]

\* set(key, value): the exception raised and the tree afterwards
set(cfg, ld, key, value) ==
    IF ~ld THEN [exc |-> "ConfigurationError", config |-> cfg]
    ELSE IF ~_set_nested(cfg, key, value).ok THEN [exc |-> "InvalidConfigError", config |-> cfg]
    ELSE [exc |-> NoExc, config |-> _set_nested(cfg, key, value).val]

\* Objects.  _merge_dict stores the values of override themselves
\* (base[key] = value, line 126): a dict of the overrides map stored this way
\* is one object held by the caller's map and by the tree.  SharedPaths is
\* the set of the paths (segment sequences) of these objects: where base
\* holds a dict and override a dict the merge descends into base's own dict,
\* elsewhere a dict of override is stored.
RECURSIVE SharedItems(_, _, _)
SharedItems(base, items, path) ==
    IF items = <<>> THEN {}
    ELSE LET key == Head(items)[1]
             value == Head(items)[2]
         IN  (IF HasKey(base, key) /\ IsDict(At(base, key)) /\ IsDict(value)
              THEN SharedItems(At(base, key), value.v, Append(path, key))
              ELSE IF IsDict(value) THEN {Append(path, key)} ELSE {})
             \cup SharedItems(Put(base, key, value), Tail(items), path)

\* some value of the overrides map is a dict
HoldsDict(overrides) ==
    IsDict(overrides) /\ \E i \in 1..Len(overrides.v) : IsDict(overrides.v[i][2])

\* the objects the tree shares with the overrides map after a successful
\* initialize: the merge of line 58 into the tree the stages before it built
\* (what initialize without overrides leaves)
SharedPaths(sset, base, secrets, environ, overrides) ==
    IF HoldsDict(overrides)
    THEN SharedItems(initialize(EmptyDict, FALSE, sset, base, secrets, environ,
                                EmptyDict).config,
                     overrides.v, <<>>)
    ELSE {}

\* a write at the dotted key goes into a shared object: a shared path is a
\* proper prefix of the key's segments
WritesInto(shared, key) ==
    \E path \in shared : Len(path) < Len(Split(key)) /\ StartsWith(Split(key), path)

\* the shared objects left after a write at the dotted key: the write
\* replaces the entry of a path it ends at or above
StillShared(shared, key) ==
    {path \in shared : ~StartsWith(path, Split(key))}

\* the caller's side of an overrides map of which nothing is shared is not
\* followed: no call reaches it
Held(overrides, given, shared) ==
    IF shared = {} THEN [overrides |-> EmptyDict, given |-> EmptyDict, shared |-> {}]
    ELSE [overrides |-> overrides, given |-> given, shared |-> shared]

\* faulty variant: has tests the truth of the value instead of "is not None"
has_truthy(cfg, ld, key) ==
    IF get(cfg, ld, key, Null).exc # NoExc THEN [exc |-> NoExc, ret |-> PyBool(FALSE)]
    ELSE [exc |-> NoExc, ret |-> PyBool(Truthy(get(cfg, ld, key, Null).ret))]

\* has(key): get(key) with the default None; the bare except turns every
\* exception into False
has(cfg, ld, key) ==
    IF get(cfg, ld, key, Null).exc # NoExc THEN [exc |-> NoExc, ret |-> PyBool(FALSE)]
    ELSE [exc |-> NoExc, ret |-> PyBool(get(cfg, ld, key, Null).ret # Null)]

\* the entries of a flattened dict whose key starts with namespace
RECURSIVE NamespaceItems(_, _)
NamespaceItems(items, namespace) ==
    IF items = <<>> THEN <<>>
    ELSE (IF StartsWith(Head(items)[1], namespace) THEN <<Head(items)>> ELSE <<>>)
         \o NamespaceItems(Tail(items), namespace)

\* get_namespace(namespace); _flatten_dict of a root that is no dict raises
\* AttributeError at d.items()
get_namespace(cfg, ld, namespace) ==
    IF ~ld THEN [exc |-> "ConfigurationError", ret |-> Null]
    ELSE IF ~IsDict(cfg) THEN [exc |-> "AttributeError", ret |-> Null]
    ELSE [exc |-> NoExc, ret |-> PyDict(NamespaceItems(_flatten_dict(cfg).v, namespace))]

----------------------------------------------------------------------------
(* chad.core.metrics: QualityMetric and MetricsRegistry, and
   chad.core.monitoring: PerformanceMonitor.measure_time.

   A QualityMetric object is [name, _values]; objects holds the objects
   created, an object's identity is its index.  A sample is a MetricValue
   [value, labels]; its timestamp is not modelled.  The labels of a call are
   a set of <<key, value>> pairs with distinct keys. *)

MetricValue(value, labels) == [value |-> value, labels |-> labels]

\* QualityMetric(name, ...)
QualityMetric(name) == [name |-> name, _values |-> <<>>]

\* QualityMetric.record(value, **labels) on the object id
QualityMetric_record(objs, id, value, labels) ==
    [objs EXCEPT ![id]._values = Append(@, MetricValue(value, labels))]

\* QualityMetric.get_latest()
QualityMetric_get_latest(objs, id) ==
    IF objs[id]._values # <<>> THEN objs[id]._values[Len(objs[id]._values)] ELSE Null

\* faulty variant: get_values hands out the list object of the metric itself
QualityMetric_get_values_itself(objs, id) ==
    [id |-> id, items |-> objs[id]._values, alias |-> TRUE]

\* QualityMetric.get_values(): a new list with the same samples
QualityMetric_get_values(objs, id) ==
    [id |-> id, items |-> objs[id]._values, alias |-> FALSE]

\* name in self._metrics
Registered(m, name) == \E i \in 1..Len(m) : m[i][1] = name

\* self._metrics[name]
MetricOf(m, name) == m[CHOOSE i \in 1..Len(m) : m[i][1] = name][2]

\* faulty variant: register replaces the metric registered under the name
register_replacing(m, name, id) ==
    IF Registered(m, name)
    THEN [exc |-> NoExc,
          _metrics |-> [i \in 1..Len(m) |-> IF m[i][1] = name THEN <<name, id>> ELSE m[i]]]
    ELSE [exc |-> NoExc, _metrics |-> Append(m, <<name, id>>)]

\* MetricsRegistry.register(metric), metric the object id named name
register(m, name, id) ==
    IF Registered(m, name) THEN [exc |-> "ValueError", _metrics |-> m]
    ELSE [exc |-> NoExc, _metrics |-> Append(m, <<name, id>>)]

\* MetricsRegistry.get_metric(name)
get_metric(m, name) ==
    IF ~Registered(m, name) THEN [exc |-> "KeyError", ret |-> 0]
    ELSE [exc |-> NoExc, ret |-> MetricOf(m, name)]

\* MetricsRegistry.record(name, value, **labels): the objects afterwards
record(m, objs, name, value, labels) ==
    IF get_metric(m, name).exc # NoExc THEN [exc |-> "KeyError", objects |-> objs]
    ELSE [exc |-> NoExc,
          objects |-> QualityMetric_record(objs, get_metric(m, name).ret, value, labels)]

\* the registrations of PerformanceMonitor._setup_performance_metrics, in
\* order: each creates an object and registers it; the first ValueError
\* ends the constructor
MonitorNames == <<(<<"cpu_usage">>), (<<"memory_usage">>), (<<"latency">>)>>

RECURSIVE SetupMetrics(_, _, _)
SetupMetrics(m, objs, names) ==
    IF names = <<>> THEN [exc |-> NoExc, _metrics |-> m, objects |-> objs]
    ELSE LET created == Append(objs, QualityMetric(Head(names)))
             r == register(m, Head(names), Len(created))
         IN  IF r.exc # NoExc THEN [exc |-> r.exc, _metrics |-> m, objects |-> created]
             ELSE SetupMetrics(r._metrics, created, Tail(names))

\* the keyword names of a set of labels
LabelKeys(labels) == {l[1] : l \in labels}

\* the keywords the call of line 89-90 binds itself: name and value are
\* parameters of MetricsRegistry.record, operation is passed explicitly;
\* a label of one of these names gives TypeError (multiple values)
BoundKeywords == {"name", "value", "operation"}

\* PerformanceMonitor.measure_time(operation_name, **labels) around a block
\* that raises or returns: the finally clause records the duration; an
\* exception of that call replaces the block's
measure_time(m, objs, operation_name, labels, raises, duration) ==
    IF LabelKeys(labels) \cap BoundKeywords # {}
    THEN [exc |-> "TypeError", objects |-> objs]
    ELSE LET r == record(m, objs, <<"latency">>, duration,
                         labels \cup {<<"operation", operation_name>>})
         IN  IF r.exc # NoExc THEN [exc |-> r.exc, objects |-> objs]
             ELSE [exc |-> IF raises THEN "BlockError" ELSE NoExc, objects |-> r.objects]

----------------------------------------------------------------------------
(* The validator (validation.py).  rules is the dict of line 21 as the
   sequence of its values in iteration order; a check is named, and
   CheckOutcome tells what calling it on a datum does: it returns a truthy
   or a falsy result, raises an Exception ("raise"), or raises an exception
   that is no Exception, as sys.exit() in a check does ("exit"). *)

ValidationRule(name, check) == [name |-> name, check |-> check, message |-> check]

CheckOutcome(check, data) ==
    CASE check = "is_positive" ->
             (CASE data = "5" -> "truthy"
                [] data = "-1" -> "falsy"
                [] OTHER -> "raise")
      [] check = "length" ->
             (CASE data = "a!" -> "falsy"
                [] OTHER -> "raise")
      [] check = "exits" ->
             (CASE data = "5" -> "truthy"
                [] OTHER -> "exit")
      [] OTHER -> "truthy"

\* self.rules[rule.name] = rule: a new name goes last, a held name keeps
\* its place and gets the new rule
add_rule(rs, rule) ==
    IF \E i \in 1..Len(rs) : rs[i].name = rule.name
    THEN [i \in 1..Len(rs) |-> IF rs[i].name = rule.name THEN rule ELSE rs[i]]
    ELSE Append(rs, rule)

\* the entry of lines 44-48 (falsy result) or 50-54 (Exception)
ErrorEntry(rule, outcome) ==
    IF outcome = "falsy"
    THEN [rule |-> rule.name, message |-> rule.message, details |-> "None"]
    ELSE [rule |-> rule.name, message |-> "Validation check failed", details |-> "error"]

\* the loop of lines 42-54 from the errors gathered so far
RECURSIVE RunRules(_, _, _)
RunRules(rs, data, errs) ==
    IF rs = <<>> THEN [exc |-> NoExc, errors |-> errs]
    ELSE LET outcome == CheckOutcome(Head(rs).check, data)
         IN  IF outcome = "exit" THEN [exc |-> "SystemExit", errors |-> errs]
             ELSE RunRules(Tail(rs), data,
                           IF outcome = "truthy" THEN errs
                           ELSE Append(errs, ErrorEntry(Head(rs), outcome)))

\* faulty variant: the loop stops at the first rule that fails
RECURSIVE RunRulesFirstFailure(_, _, _)
RunRulesFirstFailure(rs, data, errs) ==
    IF rs = <<>> \/ errs # <<>> THEN [exc |-> NoExc, errors |-> errs]
    ELSE LET outcome == CheckOutcome(Head(rs).check, data)
         IN  IF outcome = "exit" THEN [exc |-> "SystemExit", errors |-> errs]
             ELSE RunRulesFirstFailure(Tail(rs), data,
                           IF outcome = "truthy" THEN errs
                           ELSE Append(errs, ErrorEntry(Head(rs), outcome)))

\* faulty variant of validate: short-circuits
validate_first_failure(rs, data) ==
    LET r == RunRulesFirstFailure(rs, data, <<>>)
    IN  IF r.exc # NoExc THEN [exc |-> r.exc, ret |-> Null, errors |-> r.errors]
        ELSE IF r.errors # <<>>
        THEN [exc |-> "ValidationError", ret |-> r.errors, errors |-> r.errors]
        ELSE [exc |-> NoExc, ret |-> TRUE, errors |-> r.errors]

\* validate: exc, the value returned or the 'errors' of the details of the
\* ValidationError, and the list left in self._validation_errors
validate(rs, data) ==
    LET r == RunRules(rs, data, <<>>)
    IN  IF r.exc # NoExc THEN [exc |-> r.exc, ret |-> Null, errors |-> r.errors]
        ELSE IF r.errors # <<>>
        THEN [exc |-> "ValidationError", ret |-> r.errors, errors |-> r.errors]
        ELSE [exc |-> NoExc, ret |-> TRUE, errors |-> r.errors]

----------------------------------------------------------------------------
(* Inputs *)

\* bounds of the model: the calls of a behaviour of Spec, of SpecLayers and
\* of SpecEnv
MaxOps == 3
MaxLayerOps == 1
MaxEnvOps == 1
\* the calls of a behaviour of SpecMetrics
MaxMetricOps == 4
MaxValidatorOps == 4
MaxOwnerOps == 3
\* bounds of the accessor harness: the entries (keys at all levels) of an
\* enumerated tree, and of the two trees of a merge together
MaxTreeSize == 3
MaxPairSize == 4

kA == <<"a">>
kB == <<"b">>
kAB == <<"a", ".", "b">>
kDotA == <<".", "a">>

Leaf1 == PyInt(1)
Leaf2 == PyInt(2)
Leaf3 == PyInt(3)

Dict1(k, x) == PyDict(<< <<k, x>> >>)
Dict2(k1, x1, k2, x2) == PyDict(<< <<k1, x1>>, <<k2, x2>> >>)

Absent == [exists |-> FALSE, err |-> FALSE, val |-> Null]
Malformed == [exists |-> TRUE, err |-> TRUE, val |-> Null]
Document(x) == [exists |-> TRUE, err |-> FALSE, val |-> x]

\* dotted keys, values and defaults of the calls
Keys == {kA, kB, kAB, kDotA}
Values == {Null, PyBool(FALSE), PySeq(<<>>), EmptyDict, PyInt(7)}
Defaults == {Null, PyStr(<<"d">>)}
Namespaces == {<<>>, kA}

\* documents, environments and overrides maps of the calls of Spec
BaseDocs == {Absent, Malformed, Document(Null),
             Document(Dict2(kA, Dict1(kB, PyInt(0)), kB, Null)),
             Document(PySeq(<<Leaf1>>))}
SecretsDocs == {Absent, Malformed, Document(Dict1(kA, Dict1(kA, Leaf2)))}
Environs == {<<>>,
             << <<(<<"C", "H", "A", "D", "_", "A", "_", "_", "B">>), (<<"4", "2">>)>>,
                <<(<<"P", "A", "T", "H">>), (<<"x">>)>> >>}
Overrides == {EmptyDict, Dict1(kB, PyStr(<<>>))}

\* documents, environments and overrides maps of the calls of SpecLayers:
\* every layer writes its own leaf (base 1, secrets 2, overrides 3,
\* environment 4 and 5) at the paths a, a.b, a.b.c and b
kABC == <<"a", ".", "b", ".", "c">>
ProbeKeys == {kA, kB, kAB, kABC}
EnvA == <<"C", "H", "A", "D", "_", "A">>
EnvAB == <<"C", "H", "A", "D", "_", "A", "_", "_", "B">>
EnvAb == <<"C", "H", "A", "D", "_", "A", "_", "_", "b">>
EnvABC == <<"C", "H", "A", "D", "_", "A", "_", "_", "B", "_", "_", "C">>
LayerBaseDocs == {Document(Null),
                  Document(Dict1(kA, Leaf1)),
                  Document(Dict2(kA, Dict1(kB, Leaf1), kB, Leaf1))}
LayerSecretsDocs == {Absent,
                     Document(Dict1(kA, Leaf2)),
                     Document(Dict2(kA, Dict1(kB, Leaf2), kB, Leaf2)),
                     Document(Dict1(kA, Dict1(kB, Null)))}
LayerEnvirons == {<<>>,
                  << <<EnvA, (<<"4">>)>> >>,
                  << <<EnvAB, (<<"4">>)>> >>,
                  << <<EnvAB, (<<>>)>> >>,
                  << <<EnvABC, (<<"4">>)>> >>,
                  << <<EnvAB, (<<"4">>)>>, <<EnvAb, (<<"5">>)>> >>,
                  << <<EnvAB, (<<"~">>)>>, <<EnvABC, (<<"4">>)>> >>}
LayerOverrides == {EmptyDict,
                   Dict1(kA, Leaf3),
                   Dict1(kA, Dict1(kB, Leaf3)),
                   Dict1(kA, Dict1(kB, EmptyDict))}


\* documents, environments and overrides maps of the calls of SpecEnv
kAppName == <<"a", "p", "p", ".", "n", "a", "m", "e">>
kNewValue == <<"n", "e", "w", ".", "v", "a", "l", "u", "e">>
kA_B_C == <<"a", "_", "b", ".", "c">>
kA_UB == <<"a", ".", "_", "b">>
kX == <<"x">>
EnvAppName == <<"C", "H", "A", "D", "_", "A", "P", "P", "_", "_", "N", "A", "M", "E">>
EnvNewValue == <<"C", "H", "A", "D", "_", "N", "E", "W", "_", "_", "V", "A", "L", "U", "E">>
EnvA_B__C == <<"C", "H", "A", "D", "_", "A", "_", "B", "_", "_", "C">>
EnvA___B == <<"C", "H", "A", "D", "_", "A", "_", "_", "_", "B">>
EnvX == <<"C", "H", "A", "D", "_", "X">>
EnvPath == <<"P", "A", "T", "H">>
EnvLowerCase == <<"c", "h", "a", "d", "_", "a", "p", "p", "_", "_", "n", "a", "m", "e">>
EnvInside == <<"X", "C", "H", "A", "D", "_", "A", "P", "P", "_", "_", "N", "A", "M", "E">>
PrefixedNames == {EnvAppName, EnvNewValue, EnvA_B__C, EnvA___B, EnvX}
UnprefixedNames == {EnvPath, EnvLowerCase, EnvInside}

RawY == <<"Y">>
Raw42 == <<"4", "2">>
Raw42_5 == <<"4", "2", ".", "5">>
RawTrue == <<"t", "r", "u", "e">>
RawText == <<"t", "e", "x", "t">>
RawList == <<"[", "1", ",", "2", ",", "3", "]">>
RawMap == <<"{", "b", ":", " ", "1", "}">>
RawQuoted42 == <<"'", "4", "2", "'">>
RawQuoted4_5 == <<"'", "4", ".", "5", "'">>
RawDotted == <<"1", ".", "2", ".", "3">>
RawZero89 == <<"0", "8", "9">>
RawOpenList == <<"[", "1">>
RawBadDate == <<"2", "0", "0", "1", "-", "0", "2", "-", "3", "0">>
CoercedRaws == {RawY, Raw42, Raw42_5, RawTrue, RawText, RawList, RawMap, RawQuoted42,
                RawQuoted4_5, RawDotted, RawZero89, RawOpenList}

AppBase == Dict1(<<"a", "p", "p">>, Dict1(<<"n", "a", "m", "e">>, PyStr(<<"X">>)))
EnvBaseDocs == {Document(Null), Document(AppBase)}
EnvSecretsDocs == {Absent,
                   Document(Dict1(<<"a", "p", "p">>, Dict1(<<"n", "a", "m", "e">>, PyStr(<<"S">>))))}
EnvEnvirons ==
    {<<>>}
    \cup {<< <<name, RawY>> >> : name \in PrefixedNames \cup UnprefixedNames}
    \cup {<< <<EnvNewValue, raw>> >> : raw \in CoercedRaws \cup {RawBadDate}}
    \cup {<< <<EnvPath, RawText>>, <<EnvAppName, RawY>>, <<EnvLowerCase, Raw42>> >>,
          << <<EnvX, RawOpenList>>, <<EnvAppName, RawY>> >>,
          << <<EnvX, RawBadDate>>, <<EnvAppName, RawY>> >>,
          << <<EnvAppName, RawY>>, <<EnvX, RawBadDate>> >>}
EnvOverrides == {EmptyDict,
                 Dict1(<<"a", "p", "p">>, Dict1(<<"n", "a", "m", "e">>, PyStr(<<"O">>)))}
EnvProbeKeys == {kAppName, kNewValue, kA_B_C}

----------------------------------------------------------------------------
(* The provider as a state machine: one action per call *)

NoLayers == [base |-> Absent, secrets |-> Absent, environ |-> <<>>, overrides |-> EmptyDict]

Call(op, key, arg, exc, ret, stage, layers) ==
    [op |-> op, key |-> key, arg |-> arg, exc |-> exc, ret |-> ret, stage |-> stage,
     layers |-> layers]

\* no overrides map has been passed yet
NoCaller == [overrides |-> EmptyDict, given |-> EmptyDict, shared |-> {}]

\* no metric, registry entry or monitor exists: MetricsRegistry.__init__
NoMetrics ==
    /\ objects = <<>>
    /\ _metrics = <<>>
    /\ monitor = FALSE
    /\ returned = [id |-> 0, items |-> <<>>, alias |-> FALSE]
    /\ recorded = <<>>

\* Validator.__init__
NoRules ==
    /\ rules = <<>>
    /\ _validation_errors = <<>>
    /\ added = <<>>

\* __init__
Constructed ==
    /\ config = EmptyDict
    /\ loaded = FALSE
    /\ secretsSet \in BOOLEAN
    /\ call = Call("__init__", <<>>, Null, NoExc, Null, 0, NoLayers)
    /\ succeeded = FALSE
    /\ nops = 0
    /\ caller = NoCaller
    /\ NoMetrics
    /\ NoRules

Init ==
    /\ Constructed
    /\ limit = MaxOps
    /\ pin = <<>>
    /\ pout = <<>>

Initialize(base, secrets, environ, overrides) ==
    /\ nops < limit
    /\ \E r \in {initialize(config, loaded, secretsSet, base, secrets, environ, overrides)} :
          /\ config' = r.config
          /\ loaded' = r.loaded
          /\ succeeded' = (succeeded \/ r.exc = NoExc)
          /\ call' = Call("initialize", <<>>, Null, r.exc, Null, r.stage,
                          [base |-> base, secrets |-> secrets, environ |-> environ,
                           overrides |-> overrides])
          /\ caller' = IF r.exc = NoExc
                       THEN Held(overrides, overrides,
                                 SharedPaths(secretsSet, base, secrets, environ, overrides))
                       ELSE IF r.stage = 0 THEN caller
                       ELSE NoCaller
    /\ nops' = nops + 1
    /\ UNCHANGED <<secretsSet, limit, pin, pout, metricVars, validatorVars>>

Get(key, default) ==
    LET r == get(config, loaded, key, default)
    IN  /\ nops < limit
        /\ call' = Call("get", key, default, r.exc, r.ret, 0, NoLayers)
        /\ nops' = nops + 1
        /\ UNCHANGED <<config, loaded, secretsSet, succeeded, limit, pin, pout, caller,
                       metricVars, validatorVars>>

Set(key, value) ==
    LET r == set(config, loaded, key, value)
    IN  /\ nops < limit
        /\ config' = r.config
        /\ call' = Call("set", key, value, r.exc, Null, 0, NoLayers)
        /\ caller' = IF caller.shared = {} \/ call'.exc # NoExc THEN caller
                     ELSE Held(IF WritesInto(caller.shared, key)
                               THEN _set_nested(caller.overrides, key, value).val
                               ELSE caller.overrides,
                               caller.given, StillShared(caller.shared, key))
        /\ nops' = nops + 1
        /\ UNCHANGED <<loaded, secretsSet, succeeded, limit, pin, pout,
                       metricVars, validatorVars>>

\* the caller of initialize writes value at a path of the overrides map it
\* passed
CallerSet(key, value) ==
    /\ nops < limit
    /\ caller.shared # {}
    /\ config' = IF WritesInto(caller.shared, key) THEN _set_nested(config, key, value).val
                 ELSE config
    /\ caller' = Held(_set_nested(caller.overrides, key, value).val,
                      _set_nested(caller.given, key, value).val,
                      StillShared(caller.shared, key))
    /\ call' = Call("caller_set", key, value, NoExc, Null, 0, NoLayers)
    /\ nops' = nops + 1
    /\ UNCHANGED <<loaded, secretsSet, succeeded, limit, pin, pout,
                   metricVars, validatorVars>>

Has(key) ==
    LET r == has(config, loaded, key)
    IN  /\ nops < limit
        /\ call' = Call("has", key, Null, r.exc, r.ret, 0, NoLayers)
        /\ nops' = nops + 1
        /\ UNCHANGED <<config, loaded, secretsSet, succeeded, limit, pin, pout, caller,
                       metricVars, validatorVars>>

GetNamespace(namespace) ==
    LET r == get_namespace(config, loaded, namespace)
    IN  /\ nops < limit
        /\ call' = Call("get_namespace", namespace, Null, r.exc, r.ret, 0, NoLayers)
        /\ nops' = nops + 1
        /\ UNCHANGED <<config, loaded, secretsSet, succeeded, limit, pin, pout, caller,
                       metricVars, validatorVars>>

Load(doc) ==
    LET r == load(doc)
    IN  /\ nops < limit
        /\ call' = Call("load", <<>>, Null, r.exc, r.ret, 0,
                        [NoLayers EXCEPT !.base = doc])
        /\ nops' = nops + 1
        /\ UNCHANGED <<config, loaded, secretsSet, succeeded, limit, pin, pout, caller,
                       metricVars, validatorVars>>

Next ==
    \/ \E base \in BaseDocs, secrets \in SecretsDocs, environ \in Environs,
          overrides \in Overrides : Initialize(base, secrets, environ, overrides)
    \/ \E key \in Keys, default \in Defaults : Get(key, default)
    \/ \E key \in Keys, value \in Values : Set(key, value)
    \/ \E key \in Keys : Has(key)
    \/ \E namespace \in Namespaces : GetNamespace(namespace)
    \/ \E doc \in BaseDocs : Load(doc)

Spec == Init /\ [][Next]_vars

\* one provider, initialized from layered documents and then read
InitLayers ==
    /\ Constructed
    /\ limit = MaxLayerOps
    /\ pin = <<>>
    /\ pout = <<>>

NextLayers ==
    \/ \E base \in LayerBaseDocs, secrets \in LayerSecretsDocs, environ \in LayerEnvirons,
          overrides \in LayerOverrides : Initialize(base, secrets, environ, overrides)
    \/ \E key \in ProbeKeys, default \in Defaults : Get(key, default)
    \/ \E key \in ProbeKeys : Has(key)

SpecLayers == InitLayers /\ [][NextLayers]_vars

\* one provider and the caller that passed it an overrides map
OwnerBaseDocs == {Document(Null), Document(Dict1(kA, Dict1(kB, Leaf1)))}
OwnerOverrides == {EmptyDict, Dict1(kA, Leaf3), Dict1(kA, Dict1(kB, Leaf3)),
                   Dict1(kB, Dict1(kA, Dict1(kB, Leaf3)))}
OwnerKeys == {kA, kAB, <<"b", ".", "a">>, <<"b", ".", "a", ".", "b">>}
OwnerValues == {Leaf2, EmptyDict}

InitOwner ==
    /\ Constructed
    /\ limit = MaxOwnerOps
    /\ pin = <<>>
    /\ pout = <<>>

NextOwner ==
    \/ \E base \in OwnerBaseDocs, overrides \in OwnerOverrides :
          Initialize(base, Absent, <<>>, overrides)
    \/ \E key \in OwnerKeys, default \in Defaults : Get(key, default)
    \/ \E key \in OwnerKeys, value \in OwnerValues : Set(key, value)
    \/ \E key \in OwnerKeys, value \in OwnerValues : CallerSet(key, value)

SpecOwner == InitOwner /\ [][NextOwner]_vars

\* one provider, initialized under an environment and then read
InitEnv ==
    /\ Constructed
    /\ limit = MaxEnvOps
    /\ pin = <<>>
    /\ pout = <<>>

NextEnv ==
    \/ \E base \in EnvBaseDocs, secrets \in EnvSecretsDocs, environ \in EnvEnvirons,
          overrides \in EnvOverrides : Initialize(base, secrets, environ, overrides)
    \/ \E key \in EnvProbeKeys, default \in Defaults : Get(key, default)
    \/ \E key \in EnvProbeKeys : Has(key)

SpecEnv == InitEnv /\ [][NextEnv]_vars

----------------------------------------------------------------------------
(* The metrics registry, its metrics and a monitor as a state machine *)

MetricNames == {<<"m">>, <<"latency">>}
SampleValues == {1, 2}
Durations == {0, 1}
NoLabels == {}
StageLabel == {<<"stage", "x">>}
NameLabel == {<<"name", "x">>}
OperationLabel == {<<"operation", "y">>}
\* labels a caller can pass to QualityMetric.record and to measure_time
MetricLabels == {NoLabels, StageLabel, NameLabel}
MonitorLabels == {NoLabels, StageLabel, NameLabel, OperationLabel}
OperationNames == {"load"}

MetricCall(op, name, exc, ret) == [op |-> op, name |-> name, exc |-> exc, ret |-> ret]

InitMetrics ==
    /\ config = EmptyDict
    /\ loaded = FALSE
    /\ secretsSet = FALSE
    /\ call = MetricCall("__init__", <<>>, NoExc, Null)
    /\ succeeded = FALSE
    /\ nops = 0
    /\ limit = MaxMetricOps
    /\ pin = <<>>
    /\ pout = <<>>
    /\ caller = NoCaller
    /\ NoMetrics
    /\ NoRules

\* registry.register(QualityMetric(name, ...))
Register(name) ==
    LET created == Append(objects, QualityMetric(name))
        r == register(_metrics, name, Len(created))
    IN  /\ nops < limit
        /\ objects' = created
        /\ recorded' = Append(recorded, <<>>)
        /\ _metrics' = r._metrics
        /\ call' = MetricCall("register", name, r.exc, Null)
        /\ nops' = nops + 1
        /\ UNCHANGED <<config, loaded, secretsSet, succeeded, limit, pin, pout, caller,
                       monitor, returned, validatorVars>>

\* registry.get_metric(name)
GetMetric(name) ==
    LET r == get_metric(_metrics, name)
    IN  /\ nops < limit
        /\ call' = MetricCall("get_metric", name, r.exc, r.ret)
        /\ nops' = nops + 1
        /\ UNCHANGED <<config, loaded, secretsSet, succeeded, limit, pin, pout, caller,
                       metricVars, validatorVars>>

\* registry.record(name, value, **labels)
Record(name, value, labels) ==
    LET r == record(_metrics, objects, name, value, labels)
    IN  /\ nops < limit
        /\ objects' = r.objects
        /\ recorded' = IF Registered(_metrics, name)
                       THEN [recorded EXCEPT ![MetricOf(_metrics, name)] =
                                Append(@, MetricValue(value, labels))]
                       ELSE recorded
        /\ call' = MetricCall("record", name, r.exc, MetricValue(value, labels))
        /\ nops' = nops + 1
        /\ UNCHANGED <<config, loaded, secretsSet, succeeded, limit, pin, pout, caller,
                       _metrics, monitor, returned, validatorVars>>

\* metric.record(value, **labels) on an object the caller holds
MetricRecord(id, value, labels) ==
    /\ nops < limit
    /\ id \in 1..Len(objects)
    /\ objects' = QualityMetric_record(objects, id, value, labels)
    /\ recorded' = [recorded EXCEPT ![id] = Append(@, MetricValue(value, labels))]
    /\ call' = MetricCall("QualityMetric.record", objects[id].name, NoExc,
                          MetricValue(value, labels))
    /\ nops' = nops + 1
    /\ UNCHANGED <<config, loaded, secretsSet, succeeded, limit, pin, pout, caller,
                   _metrics, monitor, returned, validatorVars>>

\* metric.get_latest()
GetLatest(id) ==
    /\ nops < limit
    /\ id \in 1..Len(objects)
    /\ call' = MetricCall("get_latest", id, NoExc, QualityMetric_get_latest(objects, id))
    /\ nops' = nops + 1
    /\ UNCHANGED <<config, loaded, secretsSet, succeeded, limit, pin, pout, caller,
                   metricVars, validatorVars>>

\* metric.get_values(): the caller keeps the list
GetValues(id) ==
    /\ nops < limit
    /\ id \in 1..Len(objects)
    /\ returned' = QualityMetric_get_values(objects, id)
    /\ call' = MetricCall("get_values", id, NoExc, QualityMetric_get_values(objects, id).items)
    /\ nops' = nops + 1
    /\ UNCHANGED <<config, loaded, secretsSet, succeeded, limit, pin, pout, caller,
                   objects, _metrics, monitor, recorded, validatorVars>>

\* the caller changes the list it was given: clear() or append(x); when the
\* list is the metric's own list object the metric changes with it
ChangeReturned(change) ==
    LET items == IF change = "clear" THEN <<>>
                 ELSE Append(returned.items, MetricValue(9, NoLabels))
    IN
    /\ nops < limit
    /\ returned.id # 0
    /\ returned' = [returned EXCEPT !.items = items]
    /\ objects' = IF returned.alias THEN [objects EXCEPT ![returned.id]._values = items]
                  ELSE objects
    /\ call' = MetricCall("caller", returned.id, NoExc, items)
    /\ nops' = nops + 1
    /\ UNCHANGED <<config, loaded, secretsSet, succeeded, limit, pin, pout, caller,
                   _metrics, monitor, recorded, validatorVars>>

\* PerformanceMonitor(registry)
NewMonitor ==
    LET r == SetupMetrics(_metrics, objects, MonitorNames)
    IN  /\ nops < limit
        /\ objects' = r.objects
        /\ recorded' = recorded \o [i \in 1..(Len(r.objects) - Len(objects)) |-> <<>>]
        /\ _metrics' = r._metrics
        /\ monitor' = (monitor \/ r.exc = NoExc)
        /\ call' = MetricCall("PerformanceMonitor", <<>>, r.exc, Null)
        /\ nops' = nops + 1
        /\ UNCHANGED <<config, loaded, secretsSet, succeeded, limit, pin, pout, caller,
                       returned, validatorVars>>

\* with monitor.measure_time(operation_name, **labels): a block that raises
\* or returns, after a time the clock measures as duration
MeasureTime(operation_name, labels, raises, duration) ==
    LET r == measure_time(_metrics, objects, operation_name, labels, raises, duration)
    IN  /\ nops < limit
        /\ monitor
        /\ objects' = r.objects
        /\ recorded' = IF r.objects # objects
                       THEN [recorded EXCEPT ![MetricOf(_metrics, <<"latency">>)] =
                                Append(@, r.objects[MetricOf(_metrics, <<"latency">>)]._values[
                                    Len(r.objects[MetricOf(_metrics, <<"latency">>)]._values)])]
                       ELSE recorded
        /\ call' = [op |-> "measure_time", name |-> operation_name, exc |-> r.exc,
                    ret |-> Null, labels |-> labels, raises |-> raises,
                    duration |-> duration]
        /\ nops' = nops + 1
        /\ UNCHANGED <<config, loaded, secretsSet, succeeded, limit, pin, pout, caller,
                       _metrics, monitor, returned, validatorVars>>

NextMetrics ==
    \/ \E name \in MetricNames : Register(name)
    \/ \E name \in MetricNames : GetMetric(name)
    \/ \E name \in MetricNames, value \in SampleValues : Record(name, value, NoLabels)
    \/ \E id \in 1..MaxMetricOps, value \in SampleValues, labels \in MetricLabels :
          MetricRecord(id, value, labels)
    \/ \E id \in 1..MaxMetricOps : GetLatest(id)
    \/ \E id \in 1..MaxMetricOps : GetValues(id)
    \/ \E change \in {"clear", "append"} : ChangeReturned(change)
    \/ NewMonitor
    \/ \E operation_name \in OperationNames, labels \in MonitorLabels, raises \in BOOLEAN,
          duration \in Durations : MeasureTime(operation_name, labels, raises, duration)

SpecMetrics == InitMetrics /\ [][NextMetrics]_vars

----------------------------------------------------------------------------
(* The validator: rules are added and data validated.  added is the history
   of the add_rule calls, kept for the claims. *)

RuleNames == {"first", "second"}
Checks == {"is_positive", "length", "exits"}
Data == {"5", "-1", "a!"}

ValidatorCall(op, data, exc, ret, before) ==
    [op |-> op, data |-> data, exc |-> exc, ret |-> ret, before |-> before]

InitValidator ==
    /\ config = EmptyDict
    /\ loaded = FALSE
    /\ secretsSet = FALSE
    /\ call = ValidatorCall("__init__", "", NoExc, Null, <<>>)
    /\ succeeded = FALSE
    /\ nops = 0
    /\ limit = MaxValidatorOps
    /\ pin = <<>>
    /\ pout = <<>>
    /\ caller = NoCaller
    /\ NoMetrics
    /\ NoRules

AddRule(name, check) ==
    /\ nops < limit
    /\ rules' = add_rule(rules, ValidationRule(name, check))
    /\ added' = Append(added, ValidationRule(name, check))
    /\ call' = ValidatorCall("add_rule", name, NoExc, Null, _validation_errors)
    /\ nops' = nops + 1
    /\ UNCHANGED <<config, loaded, secretsSet, succeeded, limit, pin, pout, caller,
                   metricVars, _validation_errors>>

Validate(data) ==
    LET r == validate(rules, data)
    IN  /\ nops < limit
        /\ _validation_errors' = r.errors
        /\ call' = ValidatorCall("validate", data, r.exc, r.ret, _validation_errors)
        /\ nops' = nops + 1
        /\ UNCHANGED <<config, loaded, secretsSet, succeeded, limit, pin, pout, caller,
                       metricVars, rules, added>>

\* the errors property: a copy of the list
Errors ==
    /\ nops < limit
    /\ call' = ValidatorCall("errors", "", NoExc, _validation_errors, _validation_errors)
    /\ nops' = nops + 1
    /\ UNCHANGED <<config, loaded, secretsSet, succeeded, limit, pin, pout, caller,
                   metricVars, validatorVars>>

NextValidator ==
    \/ \E name \in RuleNames, check \in Checks : AddRule(name, check)
    \/ \E data \in Data : Validate(data)
    \/ Errors

SpecValidator == InitValidator /\ [][NextValidator]_vars

----------------------------------------------------------------------------
(* The accessor harness: _merge_dict, _set_nested, _get_nested and
   _flatten_dict applied to enumerated trees *)

PlainKeys == {kA, kB}
Leaves == {Leaf1, Leaf2}

\* the number of keys of a dict, at all levels
RECURSIVE Size(_)
Size(d) ==
    IF ~IsDict(d) \/ d.v = <<>> THEN 0
    ELSE 1 + Size(d.v[1][2]) + Size(PyDict(Tail(d.v)))

\* the dicts that have one entry more than d: a new last key here, or one
\* new entry inside a nested dict
RECURSIVE AddOne(_)
AddOne(d) ==
    {Put(d, k, x) : k \in PlainKeys \ KeySet(d), x \in Leaves \cup {EmptyDict}}
    \cup UNION {{Put(d, k, c) : c \in AddOne(At(d, k))} :
                  k \in {kk \in KeySet(d) : IsDict(At(d, kk))}}

\* the dicts over PlainKeys and Leaves of at most n entries, in every key order
RECURSIVE DictsUpTo(_)
DictsUpTo(n) ==
    IF n = 0 THEN {EmptyDict}
    ELSE DictsUpTo(n - 1) \cup UNION {AddOne(d) : d \in DictsUpTo(n - 1)}

kEmpty == <<>>
kDatabase == <<"d", "a", "t", "a", "b", "a", "s", "e">>
kHost == <<"h", "o", "s", "t">>
kPassword == <<"p", "a", "s", "s", "w", "o", "r", "d">>
DbBase == Dict1(kDatabase, Dict1(kHost, PyStr(<<"h">>)))
DbSecrets == Dict1(kDatabase, Dict1(kPassword, PyStr(<<"p">>)))
kPort == <<"p", "o", "r", "t">>
kData == <<"d", "a", "t", "a">>
Localhost == PyStr(<<"l", "o", "c", "a", "l", "h", "o", "s", "t">>)
\* the tree of test_config_namespace's assertions
DbTree == Dict1(kDatabase, Dict2(kHost, Localhost, kPort, PyInt(5432)))

\* trees with an empty key, a key that holds a '.', a Null, a sequence that
\* holds a dict, and the documents of test_secrets_loading
SpecialTrees ==
    {Dict1(kEmpty, Dict1(kA, Leaf1)),
     Dict1(kAB, Leaf1),
     Dict2(kAB, Leaf1, kA, Dict1(kB, Leaf2)),
     Dict2(kEmpty, Dict1(kA, Leaf2), kA, Leaf1),
     Dict1(kA, Null),
     Dict1(kA, PySeq(<<Dict1(kB, Leaf1)>>)),
     DbBase, DbSecrets, DbTree}

Trees == DictsUpTo(MaxTreeSize) \cup SpecialTrees

NoResult == [op |-> "none", b |-> EmptyDict, key |-> <<>>, arg |-> Null,
             val |-> Null, got |-> KeyError, other |-> <<>>]

InitPure ==
    /\ config = EmptyDict
    /\ loaded = FALSE
    /\ secretsSet = FALSE
    /\ call = Call("__init__", <<>>, Null, NoExc, Null, 0, NoLayers)
    /\ succeeded = FALSE
    /\ nops = 0
    /\ limit = 0
    /\ pin \in Trees
    /\ pout = NoResult
    /\ caller = NoCaller
    /\ NoMetrics
    /\ NoRules

\* _merge_dict(pin, b)
ApplyMerge(b) ==
    /\ pout.op = "none"
    /\ Size(pin) + Size(b) <= MaxPairSize
    /\ pout' = [NoResult EXCEPT !.op = "merge", !.b = b, !.val = _merge_dict(pin, b)]
    /\ UNCHANGED <<config, loaded, secretsSet, call, succeeded, nops, limit, pin, caller,
                   metricVars, validatorVars>>

\* _set_nested(pin, key, value), then _get_nested(pin, key)
ApplySetGet(key, value) ==
    /\ pout.op = "none"
    /\ pout' = [NoResult EXCEPT !.op = "set", !.key = key, !.arg = value,
                                !.val = _set_nested(pin, key, value).val,
                                !.got = _get_nested(_set_nested(pin, key, value).val, key)]
    /\ UNCHANGED <<config, loaded, secretsSet, call, succeeded, nops, limit, pin, caller,
                   metricVars, validatorVars>>

\* _get_nested(pin, key), and get(key, default) of a loaded provider that
\* holds pin
ApplyGet(key, default) ==
    /\ pout.op = "none"
    /\ pout' = [NoResult EXCEPT !.op = "get", !.key = key, !.arg = default,
                                !.got = _get_nested(pin, key),
                                !.val = get(pin, TRUE, key, default)]
    /\ UNCHANGED <<config, loaded, secretsSet, call, succeeded, nops, limit, pin, caller,
                   metricVars, validatorVars>>

\* _flatten_dict(pin)
ApplyFlatten ==
    /\ pout.op = "none"
    /\ pout' = [NoResult EXCEPT !.op = "flatten", !.val = _flatten_dict(pin)]
    /\ UNCHANGED <<config, loaded, secretsSet, call, succeeded, nops, limit, pin, caller,
                   metricVars, validatorVars>>

\* get_namespace(namespace) of a loaded provider that holds pin
ApplyNamespace(namespace) ==
    /\ pout.op = "none"
    /\ pout' = [NoResult EXCEPT !.op = "get_namespace", !.key = namespace,
                                !.val = get_namespace(pin, TRUE, namespace)]
    /\ UNCHANGED <<config, loaded, secretsSet, call, succeeded, nops, limit, pin, caller,
                   metricVars, validatorVars>>

PureNamespaces == {kEmpty, kA, <<"a", ".">>, kData, kDatabase}

\* _set_nested(pin, key, value) then _set_nested(pin, key2, value2), and the
\* two writes in the other order
ApplySetTwice(key, value, key2, value2) ==
    /\ pout.op = "none"
    /\ pout' = [NoResult EXCEPT
                  !.op = "set2", !.key = key, !.arg = value,
                  !.val = _set_nested(_set_nested(pin, key, value).val, key2, value2).val,
                  !.other = [key |-> key2, arg |-> value2,
                             val |-> _set_nested(_set_nested(pin, key2, value2).val,
                                                 key, value).val]]
    /\ UNCHANGED <<config, loaded, secretsSet, call, succeeded, nops, limit, pin, caller,
                   metricVars, validatorVars>>

\* the environment overlay on pin under an environment of two variables,
\* iterated in its order and in the other order: whether the loop completed
\* and the tree it left
ApplyOverlay(environ) ==
    /\ pout.op = "none"
    /\ pout' = [NoResult EXCEPT
                  !.op = "overlay",
                  !.other = [environ |-> environ,
                             fwd |-> _apply_env_overrides(pin, environ, EnvPrefix),
                             rev |-> _apply_env_overrides(pin, <<environ[2], environ[1]>>,
                                                          EnvPrefix)]]
    /\ UNCHANGED <<config, loaded, secretsSet, call, succeeded, nops, limit, pin, caller,
                   metricVars, validatorVars>>

PureKeys == {kA, kAB, kABC, kDotA, kEmpty, <<"a", ".">>}
PureValues == {Null, Leaf3, PyStr(<<"s">>), PyBool(FALSE)}
ValuePairs == {<<Leaf3, Null>>, <<PyStr(<<"s">>), Leaf3>>}
OverlayNames == {EnvA, EnvAB, EnvAb, EnvABC, EnvX}
OverlayPairs ==
    {<< <<n1, (<<"4">>)>>, <<n2, raw>> >> :
        n1 \in OverlayNames \ {EnvX}, n2 \in OverlayNames, raw \in {<<"5">>, RawBadDate}}

NextPure ==
    \/ \E b \in Trees : ApplyMerge(b)
    \/ \E key \in PureKeys, value \in PureValues : ApplySetGet(key, value)
    \/ \E key \in PureKeys, key2 \in PureKeys, values \in ValuePairs :
          ApplySetTwice(key, values[1], key2, values[2])
    \/ \E environ \in OverlayPairs : ApplyOverlay(environ)
    \/ \E key \in PureKeys, default \in Defaults : ApplyGet(key, default)
    \/ ApplyFlatten
    \/ \E namespace \in PureNamespaces : ApplyNamespace(namespace)

SpecPure == InitPure /\ [][NextPure]_vars

----------------------------------------------------------------------------
(* Claims about the accessors (SpecPure) *)

\* r is the right-biased recursive overlay of b over a
RECURSIVE IsOverlay(_, _, _)
IsOverlay(a, b, r) ==
    /\ IsDict(r)
    /\ KeySet(r) = KeySet(a) \cup KeySet(b)
    /\ \A k \in KeySet(r) :
          IF ~HasKey(b, k) THEN At(r, k) = At(a, k)
          ELSE IF HasKey(a, k) /\ IsDict(At(a, k)) /\ IsDict(At(b, k))
               THEN IsOverlay(At(a, k), At(b, k), At(r, k))
               ELSE At(r, k) = At(b, k)

DbMerged == Dict1(kDatabase, Dict2(kHost, PyStr(<<"h">>), kPassword, PyStr(<<"p">>)))

\* C9: merge(base, override) is the right-biased recursive overlay: it
\* recurses where both sides hold a map, takes override's value elsewhere,
\* keeps every key only base has, and merging {database:{password}} over
\* {database:{host}} gives {database:{host, password}}.
C9_MergeIsOverlay ==
    pout.op = "merge" =>
        /\ IsOverlay(pin, pout.b, pout.val)
        /\ (pin = DbBase /\ pout.b = DbSecrets) => PyEq(pout.val, DbMerged)

C9_Witness ==
    /\ pout.op = "merge"
    /\ pin = DbBase
    /\ pout.b = DbSecrets
    /\ pout.val = DbMerged

\* t holds a value at the dotted key k, or a value that is no map at a
\* proper prefix of it
Blocks(t, k) ==
    \E i \in 1..Len(Split(k)) :
        /\ GetWalk(t, SubSeq(Split(k), 1, i)).ok
        /\ (i = Len(Split(k)) \/ ~IsDict(GetWalk(t, SubSeq(Split(k), 1, i)).val))

\* every key of t at every level is non-empty and holds no '.'
RECURSIVE PlainTree(_)
PlainTree(t) ==
    IsDict(t) =>
        \A i \in 1..Len(t.v) :
            /\ t.v[i][1] # <<>>
            /\ FirstDot(t.v[i][1]) = 0
            /\ PlainTree(t.v[i][2])

Carries(f, k, x) == HasKey(f, k) /\ At(f, k) = x

\* C10 as stated: flatten(merge(A,B)) contains every key of flatten(A) that
\* is not a key of flatten(B), with A's value, and every key of flatten(B)
\* with B's value.
C10_FlattenOfMerge ==
    pout.op = "merge" =>
        LET fa == _flatten_dict(pin)
            fb == _flatten_dict(pout.b)
            fr == _flatten_dict(pout.val)
        IN  /\ \A k \in KeySet(fa) \ KeySet(fb) : Carries(fr, k, At(fa, k))
            /\ \A k \in KeySet(fb) : Carries(fr, k, At(fb, k))

\* C10 amended: for trees whose keys are non-empty and hold no '.',
\* flatten(merge(A,B)) contains every key of flatten(B) with B's value, and
\* every key of flatten(A) with A's value unless B holds a value at that key
\* or a value that is no map at a proper prefix of it.
C10_FlattenOfMergeUnblocked ==
    (pout.op = "merge" /\ PlainTree(pin) /\ PlainTree(pout.b)) =>
        LET fa == _flatten_dict(pin)
            fb == _flatten_dict(pout.b)
            fr == _flatten_dict(pout.val)
        IN  /\ \A k \in KeySet(fa) : ~Blocks(pout.b, k) => Carries(fr, k, At(fa, k))
            /\ \A k \in KeySet(fb) : Carries(fr, k, At(fb, k))

\* a merge where a key of flatten(A) survives next to B's keys and another
\* is replaced by a map of B
C10_Witness ==
    /\ pout.op = "merge"
    /\ pin = Dict2(kA, Leaf1, kB, Leaf1)
    /\ pout.b = Dict1(kA, Dict1(kB, Leaf2))
    /\ _flatten_dict(pout.val) = Dict2(kAB, Leaf2, kB, Leaf1)

\* the segments of the dotted keys of the harness, written out
SegmentsOf(key) ==
    CASE key = kA -> <<kA>>
      [] key = kB -> <<kB>>
      [] key = kAB -> <<kA, kB>>
      [] key = kABC -> <<kA, kB, (<<"c">>)>>
      [] key = kDotA -> <<kEmpty, kA>>
      [] key = kEmpty -> <<kEmpty>>
      [] key = <<"a", ".">> -> <<kA, kEmpty>>

\* r is t after the write of value at the segments keys: every other entry
\* of every map on the way is kept, a missing or non-map position on the
\* way holds a new map, and the last segment holds value
RECURSIVE IsSetResult(_, _, _, _)
IsSetResult(t, keys, value, r) ==
    /\ IsDict(r)
    /\ KeySet(r) = KeySet(t) \cup {keys[1]}
    /\ \A j \in KeySet(t) \ {keys[1]} : At(r, j) = At(t, j)
    /\ IF Len(keys) = 1 THEN At(r, keys[1]) = value
       ELSE IF HasKey(t, keys[1]) /\ IsDict(At(t, keys[1]))
            THEN IsSetResult(At(t, keys[1]), Tail(keys), value, At(r, keys[1]))
            ELSE IsSetResult(EmptyDict, Tail(keys), value, At(r, keys[1]))

\* C11: setNested(tree, key, value) walks the segments left to right; a
\* non-terminal position that is missing or holds a non-map becomes a new
\* empty map, a map there is kept with its other entries, and the terminal
\* segment is assigned value, whatever was there.
C11_SetNestedWalk ==
    pout.op = "set" => IsSetResult(pin, SegmentsOf(pout.key), pout.arg, pout.val)

\* a write through a sequence: the sequence at a is replaced by the map {b: 3}
C11_Witness ==
    /\ pout.op = "set"
    /\ pin = Dict1(kA, PySeq(<<Dict1(kB, Leaf1)>>))
    /\ pout.key = kAB
    /\ pout.val = Dict1(kA, Dict1(kB, Leaf3))

\* the value the first i segments lead to, when they can be followed
RECURSIVE Reach(_, _, _)
Reach(t, segs, i) == IF i = 0 THEN t ELSE At(Reach(t, segs, i - 1), segs[i])

\* the first i segments can be followed: each is a key of the map before it
RECURSIVE Reachable(_, _, _)
Reachable(t, segs, i) ==
    \/ i = 0
    \/ /\ Reachable(t, segs, i - 1)
       /\ IsDict(Reach(t, segs, i - 1))
       /\ HasKey(Reach(t, segs, i - 1), segs[i])

\* segment i is absent from the map the segments before it lead to
SegmentAbsent(t, segs, i) ==
    /\ Reachable(t, segs, i - 1)
    /\ IsDict(Reach(t, segs, i - 1))
    /\ ~HasKey(Reach(t, segs, i - 1), segs[i])

\* the segments before i lead to a value that is no map
LandsOnNonMap(t, segs, i) ==
    /\ Reachable(t, segs, i - 1)
    /\ ~IsDict(Reach(t, segs, i - 1))

NotFound(t, segs) ==
    \/ \E i \in 1..(Len(segs) - 1) : SegmentAbsent(t, segs, i)
    \/ \E i \in 1..Len(segs) : LandsOnNonMap(t, segs, i)
    \/ SegmentAbsent(t, segs, Len(segs))

\* C12: getNested signals NotFound exactly when a non-terminal segment is
\* absent, a step lands on a non-map while segments remain, or the terminal
\* segment is absent; otherwise it returns the value at the path; get of a
\* loaded provider answers every NotFound with the caller's default.
C12_NotFoundIsDefault ==
    pout.op = "get" =>
        /\ pout.got.ok = ~NotFound(pin, SegmentsOf(pout.key))
        /\ pout.got.ok =>
              pout.got.val = Reach(pin, SegmentsOf(pout.key), Len(SegmentsOf(pout.key)))
        /\ ~pout.got.ok => pout.val = [exc |-> NoExc, ret |-> pout.arg]

\* a read through a sequence that holds a map: NotFound, answered with the
\* default
C12_Witness ==
    /\ pout.op = "get"
    /\ pin = Dict1(kA, PySeq(<<Dict1(kB, Leaf1)>>))
    /\ pout.key = kAB
    /\ ~pout.got.ok
    /\ pout.arg # Null
    /\ pout.val.ret = pout.arg

\* segments joined with '.'
RECURSIVE Join(_)
Join(segs) ==
    IF Len(segs) = 1 THEN segs[1] ELSE segs[1] \o <<Dot>> \o Join(Tail(segs))

\* the non-map values of a tree with the segments of their paths: the
\* descent enters maps only
RECURSIVE LeafPaths(_, _)
LeafPaths(t, path) ==
    UNION {IF IsDict(t.v[i][2])
           THEN LeafPaths(t.v[i][2], Append(path, t.v[i][1]))
           ELSE {<<Append(path, t.v[i][1]), t.v[i][2]>>} : i \in 1..Len(t.v)}

\* C13: flatten(tree) yields one entry per non-map value reached through
\* maps, keyed by the segments of its path joined with '.'; sequences and
\* scalars are leaves, maps never appear as entries.
C13_FlattenLeafPaths ==
    pout.op = "flatten" =>
        /\ \A p \in LeafPaths(pin, <<>>) : Carries(pout.val, Join(p[1]), p[2])
        /\ Cardinality(KeySet(pout.val)) = Cardinality(LeafPaths(pin, <<>>))
        /\ \A k \in KeySet(pout.val) : ~IsDict(At(pout.val, k))

\* C13 on the trees whose keys are non-empty and hold no '.'
C13_FlattenPlainTrees ==
    (pout.op = "flatten" /\ PlainTree(pin)) =>
        /\ \A p \in LeafPaths(pin, <<>>) : Carries(pout.val, Join(p[1]), p[2])
        /\ Cardinality(KeySet(pout.val)) = Cardinality(LeafPaths(pin, <<>>))
        /\ \A k \in KeySet(pout.val) : ~IsDict(At(pout.val, k))

\* C30: flattened keys and dotted-key reads agree on every tree: every entry
\* (k, v) of flatten(tree) is read back by getNested(tree, k), every dotted
\* key at which getNested returns a non-map value v is an entry (k, v) of
\* flatten(tree), and no two leaves of the tree give the same flattened key.
C30_FlattenAgreesWithReads ==
    pout.op = "flatten" =>
        /\ \A k \in KeySet(pout.val) : _get_nested(pin, k) = Found(At(pout.val, k))
        /\ \A k \in PureKeys :
              (_get_nested(pin, k).ok /\ ~IsDict(_get_nested(pin, k).val))
                  => Carries(pout.val, k, _get_nested(pin, k).val)
        /\ \A p, q \in LeafPaths(pin, <<>>) : Join(p[1]) = Join(q[1]) => p = q
        /\ Cardinality(KeySet(pout.val)) = Cardinality(LeafPaths(pin, <<>>))

\* C30 on the trees whose keys are non-empty and hold no '.'
C30_FlattenAgreesOnPlainTrees ==
    (pout.op = "flatten" /\ PlainTree(pin)) =>
        /\ \A k \in KeySet(pout.val) : _get_nested(pin, k) = Found(At(pout.val, k))
        /\ \A k \in PureKeys :
              (_get_nested(pin, k).ok /\ ~IsDict(_get_nested(pin, k).val))
                  => Carries(pout.val, k, _get_nested(pin, k).val)
        /\ \A p, q \in LeafPaths(pin, <<>>) : Join(p[1]) = Join(q[1]) => p = q
        /\ Cardinality(KeySet(pout.val)) = Cardinality(LeafPaths(pin, <<>>))

\* r holds exactly the entries of f whose key starts with the text ns
IsPrefixFilter(f, ns, r) ==
    /\ IsDict(r)
    /\ KeySet(r) = {k \in KeySet(f) : Len(ns) <= Len(k) /\ \A i \in 1..Len(ns) : k[i] = ns[i]}
    /\ \A k \in KeySet(r) : At(r, k) = At(f, k)

\* C14 on a held tree whose root is a map: get_namespace returns the entries
\* of the flattened tree whose key starts with the namespace as raw text
C14_NamespaceOfMapRoot ==
    pout.op = "get_namespace" =>
        /\ pout.val.exc = NoExc
        /\ IsPrefixFilter(_flatten_dict(pin), pout.key, pout.val.ret)
        /\ (pin = DbTree /\ pout.key \in {kData, kDatabase}) =>
              pout.val.ret = Dict2(kDatabase \o <<Dot>> \o kHost, Localhost,
                                   kDatabase \o <<Dot>> \o kPort, PyInt(5432))

----------------------------------------------------------------------------
(* Claims about the provider's calls (Spec) *)

Accessors == {"get", "set", "get_namespace"}

\* C2: on a provider on which initialize has never succeeded, every get, set
\* and get_namespace call raises ConfigurationError and leaves the held tree
\* and the loaded flag as they were.
C2_AccessorsNeedInitialize ==
    [][(~succeeded /\ call'.op \in Accessors) =>
          /\ call'.exc = "ConfigurationError"
          /\ config' = config
          /\ loaded' = loaded]_vars

\* a set refused after a failed initialize that had already loaded the base
C2_Witness ==
    /\ ~succeeded
    /\ call.op = "set"
    /\ call.exc = "ConfigurationError"
    /\ config # EmptyDict

\* C3: has(key) on a provider that is not loaded raises ConfigurationError
\* instead of returning a boolean.
C3_HasSurfacesNotLoaded ==
    (call.op = "has" /\ ~loaded) => call.exc = "ConfigurationError"

\* C4: once the loaded flag is true it is never false again, and only
\* initialize makes it true.
C4_LoadedOneWay ==
    [][/\ loaded => loaded'
       /\ (~loaded /\ loaded') => call'.op = "initialize"]_vars

\* an initialize call that failed on a loaded provider
C4_Witness ==
    /\ call.op = "initialize"
    /\ call.exc = "ConfigurationError"
    /\ loaded

\* the document at the path cannot be loaded
Unloadable(doc) == ~doc.exists \/ doc.err

\* the tree the four stages of initialize build from the layers
FourStages(sset, L) ==
    LET t1 == IF Truthy(L.base.val) THEN L.base.val ELSE EmptyDict
        t2 == IF sset /\ L.secrets.exists
              THEN MergeCall(t1, IF Truthy(L.secrets.val) THEN L.secrets.val ELSE EmptyDict).val
              ELSE t1
        t3 == _apply_env_overrides(t2, L.environ, EnvPrefix).val
    IN  IF Truthy(L.overrides) THEN MergeCall(t3, L.overrides).val ELSE t3

\* C5: initialize sets loaded only after its four stages; when the base
\* document, or the secrets document it loads, is absent, unreadable or
\* malformed it raises ConfigurationError and loaded keeps its value; no
\* get, set or get_namespace succeeds before an initialize has completed.
C5_LoadedIsLastStep ==
    [][/\ call'.op = "initialize" =>
            /\ loaded' = (loaded \/ call'.stage = 4)
            /\ (call'.stage = 4) = (call'.exc = NoExc)
            /\ call'.stage = 4 => config' = FourStages(secretsSet, call'.layers)
            /\ (\/ Unloadable(call'.layers.base)
                \/ (secretsSet /\ call'.layers.secrets.exists
                               /\ Unloadable(call'.layers.secrets)))
               => (call'.exc = "ConfigurationError" /\ loaded' = loaded)
       /\ (call'.op \in Accessors /\ call'.exc = NoExc) => succeeded]_vars

\* a first successful initialize that ran all four stages with a secrets
\* document, a prefixed environment variable and a non-empty overrides map
C5_Witness ==
    /\ call.op = "initialize"
    /\ call.stage = 4
    /\ loaded
    /\ nops = 1
    /\ secretsSet
    /\ call.layers.secrets.exists
    /\ call.layers.environ # <<>>
    /\ call.layers.overrides # EmptyDict

\* the value stored at a dotted key, Null when the key is not found
Stored(tree, key) == IF _get_nested(tree, key).ok THEN _get_nested(tree, key).val ELSE Null

\* C6: on a loaded provider get(key, default) returns default when the key
\* is not found or the stored value is Null, the stored value otherwise; it
\* raises nothing and leaves the held tree unchanged.
C6_GetDefault ==
    [][(loaded /\ call'.op = "get") =>
          /\ call'.exc = NoExc
          /\ call'.ret = IF Stored(config, call'.key) = Null THEN call'.arg
                         ELSE Stored(config, call'.key)
          /\ config' = config]_vars

\* a get of a key stored as explicit Null that returned the default
C6_Witness ==
    /\ loaded
    /\ call.op = "get"
    /\ _get_nested(config, call.key).ok
    /\ _get_nested(config, call.key).val = Null
    /\ call.arg # Null
    /\ call.ret = call.arg

Falsy == {PyBool(FALSE), PyInt(0), PyStr(<<>>), PySeq(<<>>), EmptyDict}

\* C7: on a loaded provider has(key) is the truth value of
\* get(key, Null) != Null: false for a missing key and for a stored Null,
\* true for every other stored value.
C7_HasIsGetNotNull ==
    (loaded /\ call.op = "has") =>
        /\ call.exc = NoExc
        /\ call.ret = PyBool(get(config, loaded, call.key, Null).ret # Null)
        /\ call.ret = PyBool(_get_nested(config, call.key).ok
                             /\ _get_nested(config, call.key).val # Null)

\* has answered True for a stored falsy value
C7_Witness ==
    /\ loaded
    /\ call.op = "has"
    /\ _get_nested(config, call.key).ok
    /\ _get_nested(config, call.key).val \in Falsy
    /\ call.ret = PyBool(TRUE)

\* C8, at provider level: on a loaded provider set(key, v) followed by
\* get(key) returns v for every non-null v.
C8_SetThenGet ==
    (loaded /\ call.op = "set" /\ call.arg # Null) =>
        /\ call.exc = NoExc
        /\ get(config, loaded, call.key, Null) = [exc |-> NoExc, ret |-> call.arg]

\* C8, for the accessors: _set_nested then _get_nested on a tree returns the
\* value set.
C8_SetNestedThenGetNested ==
    pout.op = "set" => pout.got = Found(pout.arg)

\* C14: on a loaded provider get_namespace(ns) returns exactly the entries
\* of flatten(held tree) whose dotted key starts with ns as a raw string
\* prefix, and does not modify the held tree.
C14_NamespaceIsPrefixFilter ==
    [][(loaded /\ call'.op = "get_namespace") =>
          /\ call'.exc = NoExc
          /\ IsPrefixFilter(_flatten_dict(config), call'.key, call'.ret)
          /\ config' = config]_vars

\* C18: the root of the tree returned by load and held by the provider is
\* always a map: an empty document loads as the empty map without error,
\* and after every successful initialize the held root is a map.
C18_RootIsMap ==
    /\ (call.op = "load" /\ call.exc = NoExc) => IsDict(call.ret)
    /\ (call.op = "load" /\ call.layers.base = Document(Null)) =>
          (call.exc = NoExc /\ call.ret = EmptyDict)
    /\ loaded => IsDict(config)

\* C19: once initialize has succeeded the held tree is populated for good:
\* no later call other than set changes it, another initialize included.
C19_InitializeOnce ==
    [][(loaded /\ call'.op # "set") => config' = config]_vars

\* the content of a loadable document as a tree
Content(doc) == IF doc.val \in Falsy \cup {Null, PyFloat(0, 0)} THEN EmptyDict ELSE doc.val

\* C20: initialize is not atomic: when the base document loads and the
\* secrets document then fails to load, the call raises ConfigurationError,
\* leaves the loaded flag as it was and leaves the base document's content
\* in the held tree.
C20_NoRollback ==
    [][(/\ call'.op = "initialize"
        /\ ~Unloadable(call'.layers.base)
        /\ secretsSet
        /\ call'.layers.secrets.exists
        /\ Unloadable(call'.layers.secrets))
       => /\ call'.exc = "ConfigurationError"
          /\ loaded' = loaded
          /\ config' = Content(call'.layers.base)]_vars

\* a loaded provider whose tree was replaced by the base document of an
\* initialize call that failed at its secrets document
C20_Witness ==
    /\ loaded
    /\ call.op = "initialize"
    /\ call.exc = "ConfigurationError"
    /\ call.stage = 1
    /\ call.layers.secrets = Malformed
    /\ call.layers.base = Document(Dict2(kA, Dict1(kB, PyInt(0)), kB, Null))
    /\ config = Dict2(kA, Dict1(kB, PyInt(0)), kB, Null)

----------------------------------------------------------------------------
(* Claims about the environment overlay (SpecEnv) *)

\* the segments of the dotted keys of the prefixed names, written out
ExpectedSegments(name) ==
    CASE name = EnvAppName -> <<(<<"a", "p", "p">>), (<<"n", "a", "m", "e">>)>>
      [] name = EnvNewValue -> <<(<<"n", "e", "w">>), (<<"v", "a", "l", "u", "e">>)>>
      [] name = EnvA_B__C -> <<(<<"a", "_", "b">>), (<<"c">>)>>
      [] name = EnvA___B -> <<(<<"a">>), (<<"_", "b">>)>>
      [] name = EnvX -> <<(<<"x">>)>>

ExpectedKey(name) == Join(ExpectedSegments(name))

\* the tree of a call before its environment overlay
BeforeEnv(sset, L) ==
    IF sset /\ L.secrets.exists THEN MergeCall(load(L.base).ret, load(L.secrets).ret).val
    ELSE load(L.base).ret

\* every variable of a prefixed name written at its expected key, in order
RECURSIVE WrittenAll(_, _)
WrittenAll(t, environ) ==
    IF environ = <<>> THEN t
    ELSE IF Head(environ)[1] \in PrefixedNames
         THEN WrittenAll(SetWalk(t, ExpectedSegments(Head(environ)[1]),
                                 EnvValue(Head(environ)[2])),
                         Tail(environ))
         ELSE WrittenAll(t, Tail(environ))

AfterOverrides(t, overrides) == IF overrides = EmptyDict THEN t ELSE _merge_dict(t, overrides)

\* C15: an initialize that returns normally has written every variable
\* whose name starts with the prefix at the key obtained by stripping the
\* prefix, lower-casing and replacing '__' by '.', and no other variable;
\* with base {app:{name:'X'}} and CHAD_APP__NAME=Y, get('app.name') is 'Y'.
C15_EnvKeyMapping ==
    (call.op = "initialize" /\ call.exc = NoExc) =>
        /\ config = AfterOverrides(WrittenAll(BeforeEnv(secretsSet, call.layers),
                                              call.layers.environ),
                                   call.layers.overrides)
        /\ (/\ call.layers.base = Document(AppBase)
            /\ call.layers.environ = << <<EnvAppName, RawY>> >>
            /\ call.layers.overrides = EmptyDict)
           => get(config, loaded, kAppName, Null).ret = PyStr(RawY)

\* the example of the claim, and a call whose variables are all unprefixed
C15_Witness ==
    /\ call.op = "initialize"
    /\ call.exc = NoExc
    /\ call.layers.base = Document(AppBase)
    /\ call.layers.environ = << <<EnvAppName, RawY>> >>
    /\ call.layers.overrides = EmptyDict
    /\ get(config, loaded, kAppName, Null).ret = PyStr(RawY)

\* the value each raw text is stored as, written out
ExpectedValue(raw) ==
    CASE raw = RawY -> PyStr(RawY)
      [] raw = Raw42 -> PyInt(42)
      [] raw = Raw42_5 -> PyFloat(425, 1)
      [] raw = RawTrue -> PyBool(TRUE)
      [] raw = RawText -> PyStr(RawText)
      [] raw = RawList -> PySeq(<<PyInt(1), PyInt(2), PyInt(3)>>)
      [] raw = RawMap -> Dict1(kB, PyInt(1))
      [] raw = RawQuoted42 -> PyInt(42)
      [] raw = RawQuoted4_5 -> PyFloat(45, 1)
      [] raw = RawDotted -> PyStr(RawDotted)
      [] raw = RawZero89 -> PyInt(89)
      [] raw = RawOpenList -> PyStr(RawOpenList)

\* C16: the value stored for a prefixed variable is the structured parse of
\* the raw text when that is no string; a parsed string is stored as Float
\* when it holds a '.' and parses as a float, as Int when it holds no '.'
\* and parses as an integer, unchanged otherwise.
C16_StoredValueStages ==
    (/\ call.op = "initialize"
     /\ call.exc = NoExc
     /\ call.layers.overrides = EmptyDict
     /\ Len(call.layers.environ) = 1
     /\ call.layers.environ[1][1] = EnvNewValue)
    => _get_nested(config, kNewValue) = Found(ExpectedValue(call.layers.environ[1][2]))

\* a quoted number: the parse gives the string '42', the coercion the Int 42
C16_Witness ==
    /\ call.op = "initialize"
    /\ call.exc = NoExc
    /\ call.layers.environ = << <<EnvNewValue, RawQuoted42>> >>
    /\ _get_nested(config, kNewValue) = Found(PyInt(42))

\* C17: no value of an environment variable aborts the overlay: when the
\* base and secrets documents load, initialize returns normally with
\* loaded = true and a value stored for every prefixed variable.
C17_OverlayNeverAborts ==
    (/\ call.op = "initialize"
     /\ ~Unloadable(call.layers.base)
     /\ (secretsSet /\ call.layers.secrets.exists) => ~Unloadable(call.layers.secrets))
    => /\ call.exc = NoExc
       /\ loaded
       /\ \A n \in 1..Len(call.layers.environ) :
             call.layers.environ[n][1] \in PrefixedNames
                => _get_nested(config, ExpectedKey(call.layers.environ[n][1])).ok

----------------------------------------------------------------------------
(* Claims about the metrics registry, the metrics and the monitor
   (SpecMetrics) *)

\* C22: MetricsRegistry keeps metric names unique and creates no metric
\* implicitly: register of a registered name raises ValueError and leaves
\* the registry and the registered metric unchanged; get_metric and record
\* of an unregistered name raise KeyError and leave the registry unchanged.
C22_RegistryNamesUnique ==
    [][/\ (call'.op = "register" /\ Registered(_metrics, call'.name)) =>
             /\ call'.exc = "ValueError"
             /\ _metrics' = _metrics
             /\ SubSeq(objects', 1, Len(objects)) = objects
       /\ (call'.op \in {"get_metric", "record"} /\ ~Registered(_metrics, call'.name)) =>
             /\ call'.exc = "KeyError"
             /\ _metrics' = _metrics
             /\ objects' = objects
       /\ \A i, j \in 1..Len(_metrics') : _metrics'[i][1] = _metrics'[j][1] => i = j
       /\ _metrics' # _metrics => call'.op \in {"register", "PerformanceMonitor"}]_vars

\* a second metric of a registered name was refused
C22_Witness ==
    /\ call.op = "register"
    /\ call.exc = "ValueError"
    /\ Len(objects) = 2
    /\ _metrics = << <<objects[2].name, 1>> >>

\* C23: the history of a QualityMetric is append-only: its values are the
\* samples recorded on it, in record order, whatever the caller does with a
\* list get_values returned; get_values returns them all and get_latest the
\* last one, or None when there is none.
C23_HistoryAppendOnly ==
    /\ \A id \in 1..Len(objects) : objects[id]._values = recorded[id]
    /\ call.op = "get_values" => call.ret = recorded[call.name]
    /\ call.op = "get_latest" =>
          call.ret = IF recorded[call.name] = <<>> THEN Null
                     ELSE recorded[call.name][Len(recorded[call.name])]

\* the caller changed the list get_values returned and the metric kept its
\* history
C23_Witness ==
    /\ call.op = "caller"
    /\ recorded[returned.id] # <<>>
    /\ returned.items # recorded[returned.id]
    /\ objects[returned.id]._values = recorded[returned.id]

LatencyOf(m) == MetricOf(m, <<"latency">>)

\* C25: measure_time appends exactly one sample to the latency metric,
\* labelled with the operation name and the given labels, each time its
\* block is exited, by return or by exception, and an exception of the block
\* propagates.
C25_OneSamplePerExit ==
    [][call'.op = "measure_time" =>
          /\ objects'[LatencyOf(_metrics)]._values =
                Append(objects[LatencyOf(_metrics)]._values,
                       MetricValue(call'.duration,
                                   call'.labels \cup {<<"operation", call'.name>>}))
          /\ call'.exc = IF call'.raises THEN "BlockError" ELSE NoExc]_vars

\* C25 for labels that are not named name, value or operation
C25_OneSamplePerExitFreeLabels ==
    [][(call'.op = "measure_time" /\ LabelKeys(call'.labels) \cap BoundKeywords = {}) =>
          /\ objects'[LatencyOf(_metrics)]._values =
                Append(objects[LatencyOf(_metrics)]._values,
                       MetricValue(call'.duration,
                                   call'.labels \cup {<<"operation", call'.name>>}))
          /\ call'.exc = IF call'.raises THEN "BlockError" ELSE NoExc]_vars

----------------------------------------------------------------------------
(* Claims about the objects of the tree (SpecOwner) *)

\* C27: the provider alone owns its tree: after initialize(overrides) no set
\* call changes the overrides map of the caller or a map nested in it (the
\* map holds what the caller put there).
C27_ProviderOwnsTree == caller.overrides = caller.given

\* C27, second part: a change the caller makes to the overrides map it
\* passed does not change the tree get reads.
C27_CallerChangeUnseen == [][call'.op = "caller_set" => config' = config]_vars

----------------------------------------------------------------------------
(* Claims about the validator (SpecValidator) *)

\* the rules of a history of add_rule calls: the last rule added under each
\* name
CurrentRule(hist, name) ==
    hist[CHOOSE i \in 1..Len(hist) :
            /\ hist[i].name = name
            /\ \A j \in (i + 1)..Len(hist) : hist[j].name # name]

IsFirstOf(hist, i) == \A j \in 1..(i - 1) : hist[j].name # hist[i].name
IsLastOf(hist, i) == \A j \in (i + 1)..Len(hist) : hist[j].name # hist[i].name

RECURSIVE PickFrom(_, _, _)
PickFrom(hist, i, first) ==
    IF i > Len(hist) THEN <<>>
    ELSE IF (first /\ IsFirstOf(hist, i)) \/ (~first /\ IsLastOf(hist, i))
    THEN <<CurrentRule(hist, hist[i].name)>> \o PickFrom(hist, i + 1, first)
    ELSE PickFrom(hist, i + 1, first)

\* the registered rules in the order in which they were themselves added
InRegistrationOrder(hist) == PickFrom(hist, 1, FALSE)
\* the registered rules in the order in which their names were first added
InNameOrder(hist) == PickFrom(hist, 1, TRUE)

RuleFails(rule, data) == CheckOutcome(rule.check, data) # "truthy"

RECURSIVE EntriesOf(_, _)
EntriesOf(rs, data) ==
    IF rs = <<>> THEN <<>>
    ELSE IF ~RuleFails(Head(rs), data) THEN EntriesOf(Tail(rs), data)
    ELSE LET r == Head(rs)
         IN  << [rule |-> r.name,
                 message |-> IF CheckOutcome(r.check, data) = "falsy"
                             THEN r.message ELSE "Validation check failed",
                 details |-> IF CheckOutcome(r.check, data) = "falsy"
                             THEN "None" ELSE "error"] >>
             \o EntriesOf(Tail(rs), data)

ValidateOutcome(expected) ==
    /\ _validation_errors = expected
    /\ expected = <<>> => (call.exc = NoExc /\ call.ret = TRUE)
    /\ expected # <<>> => (call.exc = "ValidationError" /\ call.ret = expected)

----------------------------------------------------------------------------
(* Claims about the layers of initialize (SpecLayers) *)

LayerIds == 1..4

\* the layers of a call as trees, lowest precedence first: the base
\* document, the secrets document when it is configured and exists, what
\* the environment variables write, the overrides map
LayerTree(sset, L, i) ==
    CASE i = 1 -> load(L.base).ret
      [] i = 2 -> IF sset /\ L.secrets.exists THEN load(L.secrets).ret ELSE EmptyDict
      [] i = 3 -> _apply_env_overrides(EmptyDict, L.environ, EnvPrefix).val
      [] OTHER -> L.overrides

\* the tree holds a non-null leaf at the dotted key
Defines(t, key) ==
    /\ IsDict(t)
    /\ _get_nested(t, key).ok
    /\ _get_nested(t, key).val # Null
    /\ ~IsDict(_get_nested(t, key).val)

Defining(sset, L, key) == {i \in LayerIds : Defines(LayerTree(sset, L, i), key)}

Top(sset, L, key) ==
    CHOOSE i \in Defining(sset, L, key) : \A j \in Defining(sset, L, key) : j <= i

IsPrefix(p, q) == Len(p) <= Len(q) /\ SubSeq(q, 1, Len(p)) = p

\* a prefixed environment variable maps to the key, to a prefix of it or to
\* an extension of it
EnvWritesAlong(environ, key) ==
    \E n \in 1..Len(environ) :
        /\ StartsWith(environ[n][1], EnvPrefix)
        /\ \/ IsPrefix(Split(ConfigKey(environ[n][1], EnvPrefix)), Split(key))
           \/ IsPrefix(Split(key), Split(ConfigKey(environ[n][1], EnvPrefix)))

\* layer i rewrites the path of the key without defining a non-null leaf there
Touches(sset, L, i, key) ==
    IF i = 3 THEN EnvWritesAlong(L.environ, key)
    ELSE Blocks(LayerTree(sset, L, i), key)

\* the raw values the parser reads as None
NoneRaws == {<<>>, <<"~">>, <<"n", "u", "l", "l">>}

\* the config key of the variables of LayerEnvirons
LayerKey(name) ==
    CASE name = EnvA -> kA
      [] name = EnvAB -> kAB
      [] name = EnvAb -> kAB
      [] name = EnvABC -> kABC

\* the overrides map holds a value other than None at the key
Redefines(overrides, key) ==
    /\ ~NotFound(overrides, SegmentsOf(key))
    /\ Reach(overrides, SegmentsOf(key), Len(SegmentsOf(key))) # Null

\* a variable after the n-th maps to the key, to a prefix or to an extension
WrittenOverLater(environ, n, key) ==
    \E j \in (n + 1)..Len(environ) :
        \/ IsPrefix(SegmentsOf(LayerKey(environ[j][1])), SegmentsOf(key))
        \/ IsPrefix(SegmentsOf(key), SegmentsOf(LayerKey(environ[j][1])))

ReadsAsUnset(key) ==
    /\ \A default \in Defaults : get(config, loaded, key, default).ret = default
    /\ has(config, loaded, key).ret = PyBool(FALSE)

\* C26: a variable whose value the parser reads as None is still written at
\* its config key: after initialize, get(key, default) returns default and
\* has(key) is false, whatever the base and secrets documents hold there,
\* unless the overrides map redefines the key.
C26_NoneVariableWritten ==
    (call.op = "initialize" /\ call.exc = NoExc) =>
        \A n \in 1..Len(call.layers.environ) :
            (/\ call.layers.environ[n][2] \in NoneRaws
             /\ ~Redefines(call.layers.overrides, LayerKey(call.layers.environ[n][1])))
            => ReadsAsUnset(LayerKey(call.layers.environ[n][1]))

\* C26 amended: ... unless the overrides map redefines the key or a later
\* variable of the environment maps to the key, to a prefix of it or to an
\* extension of it.
C26_NoneVariableWrittenLast ==
    (call.op = "initialize" /\ call.exc = NoExc) =>
        \A n \in 1..Len(call.layers.environ) :
            (/\ call.layers.environ[n][2] \in NoneRaws
             /\ ~Redefines(call.layers.overrides, LayerKey(call.layers.environ[n][1]))
             /\ ~WrittenOverLater(call.layers.environ, n,
                                  LayerKey(call.layers.environ[n][1])))
            => ReadsAsUnset(LayerKey(call.layers.environ[n][1]))

\* base and secrets define a.b, the environment sets it to None, the
\* overrides map leaves it alone: a.b reads as unset
C26_Witness ==
    /\ call.op = "initialize"
    /\ call.exc = NoExc
    /\ secretsSet
    /\ call.layers.base = Document(Dict2(kA, Dict1(kB, Leaf1), kB, Leaf1))
    /\ call.layers.secrets = Document(Dict2(kA, Dict1(kB, Leaf2), kB, Leaf2))
    /\ call.layers.environ = << <<EnvAB, (<<>>)>> >>
    /\ call.layers.overrides = EmptyDict
    /\ _get_nested(config, kAB) = Found(Null)
    /\ ReadsAsUnset(kAB)

Unrelated(segs1, segs2) == ~IsPrefix(segs1, segs2) /\ ~IsPrefix(segs2, segs1)

OverlayKey(name) == IF name = EnvX THEN kX ELSE LayerKey(name)
OverlaySegments(name) == IF name = EnvX THEN <<kX>> ELSE SegmentsOf(LayerKey(name))

\* C28 (SpecPure): the overlay does not depend on the iteration order of the
\* variables when they map to pairwise distinct config keys: every order
\* leaves the same tree; two writes with setNested at distinct dotted keys
\* commute.
C28_OverlayOrder ==
    /\ (pout.op = "set2" /\ pout.key # pout.other.key)
          => PyEq(pout.val, pout.other.val)
    /\ (pout.op = "overlay"
          /\ OverlayKey(pout.other.environ[1][1]) # OverlayKey(pout.other.environ[2][1]))
          => PyEq(pout.other.fwd.val, pout.other.rev.val)

\* C28 amended: ... when no variable's config key has a segment list that is
\* a prefix of another's: the loop is left by an exception in every order or
\* in none, and when it completes every order leaves the same tree; two
\* writes with setNested commute when neither key's segment list is a prefix
\* of the other's.
C28_OverlayOrderUnrelated ==
    /\ (pout.op = "set2"
          /\ Unrelated(SegmentsOf(pout.key), SegmentsOf(pout.other.key)))
          => PyEq(pout.val, pout.other.val)
    /\ (pout.op = "overlay"
          /\ Unrelated(OverlaySegments(pout.other.environ[1][1]),
                       OverlaySegments(pout.other.environ[2][1])))
          => /\ pout.other.fwd.ok = pout.other.rev.ok
             /\ pout.other.fwd.ok => PyEq(pout.other.fwd.val, pout.other.rev.val)

\* a.b and a.c (here "a." with an empty last segment) were written into the
\* map at a in both orders
C28_Witness ==
    /\ pout.op = "set2"
    /\ pin = Dict1(kA, Dict1(kA, Leaf1))
    /\ pout.key = kAB
    /\ pout.other.key = <<"a", ".">>
    /\ pout.val = Dict1(kA, PyDict(<< <<kA, Leaf1>>, <<kB, Leaf3>>, <<kEmpty, Null>> >>))
    /\ pout.other.val = Dict1(kA, PyDict(<< <<kA, Leaf1>>, <<kEmpty, Null>>, <<kB, Leaf3>> >>))

\* C29 (Spec): frame of set: on a loaded provider set(key, value) leaves the
\* loaded flag alone and, for every dotted key k2 whose segment list is no
\* prefix of key's and has not key's as a prefix, getNested(k2) gives the same
\* result, value or NotFound, after the set as before.
C29_SetFrame ==
    [][(loaded /\ call'.op = "set") =>
          /\ loaded' = loaded
          /\ \A k2 \in Keys :
                Unrelated(SegmentsOf(call'.key), SegmentsOf(k2))
                   => _get_nested(config', k2) = _get_nested(config, k2)]_vars

\* b was written next to the map at a, and a.b reads as before
C29_Witness ==
    /\ loaded
    /\ call.op = "set"
    /\ call.exc = NoExc
    /\ call.key = kB
    /\ call.arg = PyInt(7)
    /\ _get_nested(config, kB) = Found(PyInt(7))
    /\ _get_nested(config, kAB) = Found(PyInt(0))

\* C1 as stated: after a successful initialize, get(key) of a key that more
\* than one layer defines with a non-null leaf returns the value of the
\* highest-precedence layer that defines it.
C1_Precedence ==
    (call.op = "initialize" /\ call.exc = NoExc) =>
        \A key \in ProbeKeys :
            Cardinality(Defining(secretsSet, call.layers, key)) >= 2 =>
                get(config, loaded, key, Null).ret =
                    _get_nested(LayerTree(secretsSet, call.layers,
                                          Top(secretsSet, call.layers, key)), key).val

\* C1 amended: ... provided no layer above that one holds a value at the key
\* or a value that is no map at a proper prefix of it, and, when the
\* environment is above it, no prefixed variable maps to the key, to a prefix
\* of it or to an extension of it.
C1_PrecedenceUntouched ==
    (call.op = "initialize" /\ call.exc = NoExc) =>
        \A key \in ProbeKeys :
            (/\ Cardinality(Defining(secretsSet, call.layers, key)) >= 2
             /\ \A j \in LayerIds :
                   j > Top(secretsSet, call.layers, key)
                      => ~Touches(secretsSet, call.layers, j, key))
            => get(config, loaded, key, Null).ret =
                    _get_nested(LayerTree(secretsSet, call.layers,
                                          Top(secretsSet, call.layers, key)), key).val

\* the tree an initialize call builds from a tree t: the environment
\* overlay, then the overrides map
OverlaidFrom(t, L) ==
    AfterOverrides(_apply_env_overrides(t, L.environ, EnvPrefix).val, L.overrides)

\* C21: the secrets stage runs only when a secrets source is configured and
\* its target exists: with a configured source whose target does not exist
\* initialize succeeds with the tree of a provider without secrets source;
\* an existing secrets document is merged over the base before the
\* environment overlay.
C21_SecretsStage ==
    call.op = "initialize" =>
        /\ (~secretsSet \/ ~call.layers.secrets.exists) =>
              /\ call.exc = NoExc
              /\ config = OverlaidFrom(Content(call.layers.base), call.layers)
        /\ (secretsSet /\ call.layers.secrets.exists) =>
              /\ call.exc = NoExc
              /\ config = OverlaidFrom(_merge_dict(Content(call.layers.base),
                                                   Content(call.layers.secrets)),
                                       call.layers)

\* an initialize with a configured secrets source whose target does not
\* exist, over a base document and an environment that write
C21_Witness ==
    /\ call.op = "initialize"
    /\ call.exc = NoExc
    /\ secretsSet
    /\ ~call.layers.secrets.exists
    /\ call.layers.base = Document(Dict1(kA, Leaf1))
    /\ call.layers.environ # <<>>
    /\ config = OverlaidFrom(Dict1(kA, Leaf1), call.layers)

\* all four layers define a.b and the overrides map wins
C1_Witness ==
    /\ call.op = "initialize"
    /\ call.exc = NoExc
    /\ Defining(secretsSet, call.layers, kAB) = LayerIds
    /\ get(config, loaded, kAB, Null).ret = Leaf3

====
